---- MODULE Spec2Model ----
(***************************************************************************)
(* GPS -> LoRa relay scripts.  The dual-backend sender (gps1.py) is modelled *)
(* as a state machine: start-up (init_gps, backend selection), the read /    *)
(* parse / motion update / send loop, and the KeyboardInterrupt exit path.   *)
(*                                                                           *)
(* Units.  Coordinates are integers in units of 1e-7 degree (the payload     *)
(* prints 7 decimals).  Distances are integer micrometres, times are integer *)
(* seconds, speeds are integers in units of 0.01 km/h (the payload prints 2  *)
(* decimals).  Python's None is the empty tuple <<>>; an optional number x   *)
(* is <<x>>.                                                                 *)
(***************************************************************************)
EXTENDS Integers, Sequences, FiniteSets, TLC

\* ---------------------------------------------------------------------------
\* Bounds of the model
\* ---------------------------------------------------------------------------
\* Wall clock / NMEA time-of-day horizon, in seconds.
MaxTime == 3

\* Number of send_message calls of the AT-command communicator.
MaxMessages == 2

\* Number of lines the GNSS receiver emits in a run.
MaxLines == 3

\* Number of send calls of the main loop and of receive calls of the receiver
\* thread of sender.py that do more than find nothing waiting.
MaxPackets == 2

\* ---------------------------------------------------------------------------
\* Program constants (gps1.py)
\* ---------------------------------------------------------------------------
\* SEND_INTERVAL = 1.0 seconds between messages.
SEND_INTERVAL == 1

\* R = 6371000.0 metres, earth radius used by haversine_m.
R == 6371000

None == <<>>
Some(x) == <<x>>
Val(o) == o[1]

Abs(x) == IF x < 0 THEN -x ELSE x

\* ---------------------------------------------------------------------------
\* Inputs: what pynmea2.parse hands back for a supported sentence
\* ---------------------------------------------------------------------------
\* msg.latitude values (1e-7 degree).  0 is what pynmea2 reports for an empty
\* latitude field and also for a fix on the equator.  The three non-zero
\* values lie on one meridian: the docstring position 12.9716 N, a point
\* 30 units (0.33 m) north of it and a point 9000 units (100 m) north of it.
Latitudes == {0, 129716000, 129716030, 129725000}

\* msg.longitude values: 0 (empty field or prime meridian) and 77.5946 E.
Longitudes == {0, 775946000}

\* Speed over ground of an RMC sentence in knots (None when the field is
\* empty; GGA never has one).
GroundSpeeds == {None, Some(10)}

\* msg.timestamp as seconds of the day combined with today's date (None when
\* the sentence has no time field).
Timestamps == {None, Some(1), Some(2)}

\* A parsed, supported sentence.  "valid" is the GGA fix quality > 0 or the
\* RMC status = 'A'.  GGA has no speed field.
Sentence(lats, lons, times) ==
    [kind : {"GGA"}, latitude : lats, longitude : lons,
     valid : BOOLEAN, sog : {None}, timestamp : times]
    \cup
    [kind : {"RMC"}, latitude : lats, longitude : lons,
     valid : BOOLEAN, sog : GroundSpeeds, timestamp : times]

\* Sentences with a position on the meridian of Longitudes.
PositionMessages == Sentence(Latitudes \ {0}, Longitudes \ {0}, Timestamps)

\* Sentences of a receiver without a fix: empty coordinate fields, no speed.
EmptyMessages ==
    {m \in Sentence({0}, {0}, {None}) : ~m.valid /\ m.sog = None}

\* Fixes on the equator or on the prime meridian.
ZeroCoordinateMessages ==
    {m \in Sentence({0, 129716000}, Longitudes, {None}) :
        /\ m.valid /\ m.sog = None /\ m.kind = "GGA"
        /\ (m.latitude = 0) # (m.longitude = 0)}

Messages == PositionMessages \cup EmptyMessages \cup ZeroCoordinateMessages

\* Two of them, one with and one without a position.
FewMessages ==
    [kind : {"GGA"}, latitude : {0, 129716000}, longitude : {775946000},
     valid : BOOLEAN, sog : {None}, timestamp : {None}]

NoMsg == [kind |-> "none"]

\* ---------------------------------------------------------------------------
\* haversine_m
\* ---------------------------------------------------------------------------
\* radians(1 degree) * 1e6, rounded down (pi/180 = 0.01745329...).
RadPerDegE6 == 17453

\* Distance in micrometres.  Every position that reaches haversine_m in this
\* model has the same longitude (a zero longitude is rejected before), so
\* dlambda = 0, a = sin(dphi/2)^2, c = |dphi| and the result is
\* R * radians(|lat2 - lat1|).  One coordinate unit is 1e-7 degree:
\* R[m] * 1e6[um/m] * (pi/180) * 1e-7 = (R/1000) * RadPerDegE6 / 10000 um.
haversine_m(lat1, lon1, lat2, lon2) ==
    Abs(lat2 - lat1) * (((R \div 1000) * RadPerDegE6) \div 10000)

\* ---------------------------------------------------------------------------
\* State of gps1.py
\* ---------------------------------------------------------------------------
VARIABLES
    pc,             \* "init_gps", "select", "loop", "exited", "stopped"
    exit_code,      \* None while running, Some(status) after the process ended
    HAS_SX126X,     \* result of the LoRaRF import at module load
    gps_open,       \* the GPS serial handle is open
    at_open,        \* the AT-mode serial handle is open
    driver_res,     \* what init_lora_driver returned to main ("not_called" before)
    lora_iface,     \* "None", "sx" or "at"
    lora_handle,    \* "None", "sx_obj" or "at_serial"
    acquisitions,   \* number of times main ran the backend selection
    last_lat, last_lon, last_time, last_fix_valid,
    line,           \* classification of the line read in this iteration
    msg,            \* the sentence parsed in this iteration (NoMsg if none)
    dist_m, dt,     \* locals of the speed calculation (None if not computed)
    speed_kmh,      \* local speed_kmh of the last motion update
    payload,        \* last payload handed to send_lora (None if none yet)
    ok,             \* outcome of the last send_lora call (None if none yet)
    resp,           \* reply read from the AT modem by the last send (None if none)
    tx_count,       \* number of send_lora calls so far
    fail_since,     \* history: clock at the first send of the current run of
                    \* failed sends (None after a successful send)
    now             \* wall clock, seconds

\* State of deep.py (LoRaCommunicator on an AT-command modem)
VARIABLES
    sm_pc,          \* position in send_message: "idle", "mode1", "sent"
    ser_in,         \* replies waiting in the serial input buffer
    in_flight,      \* replies the modem has issued that have not arrived yet
    response,       \* local "response" of send_message: what AT+SEND read
    commands,       \* commands send_message has attempted in the current call
    result,         \* value the last send_message call returned (None if none)
    messages,       \* number of send_message calls completed
    module_mode     \* mode the modem is in: 0 receive, 1 transmit

\* State of ant.py (GPS sentences relayed over a transparent UART)
VARIABLES
    ant_pc,         \* "loop", "crashed" (unhandled exception), "stopped"
    ant_gps_open,   \* the GPS serial handle "gps" is open
    ant_lora_open,  \* the serial handle of the sx126x object is open
    ant_buf,        \* lines waiting in the GPS serial input buffer
    ant_emitted,    \* number of lines the GNSS receiver has emitted
    ant_line,       \* the line read in this iteration (NoLine if none)
    ant_sent,       \* last payload handed to lora.send (None if none yet)
    ant_tx,         \* number of lora.send calls
    ant_newest      \* history: number of the newest emitted line that
                    \* carries a position (0 if none yet)

\* State of gps.py (GGA positions relayed over a transparent UART)
VARIABLES
    g_pc,           \* "loop", "stopped"
    g_gps_open,     \* the serial handle of the GPSModule object is open
    g_lora_open,    \* the serial handle of the SX126x object is open
    g_line,         \* the line read_location read in this iteration
    g_location,     \* what read_location returned (None or Some(lat, lon))
    g_count,        \* local "count" of main
    g_written,      \* text the last call of send wrote (None if none, or if
                    \* its write raised)
    g_ok,           \* what the last send returned (None if none yet)
    g_now,          \* wall clock, seconds
    g_last_tx       \* history: clock at the last call of send (None if none)

\* State of the payload on its way from gps1.py to rec.py
VARIABLES
    p_pc,           \* "format", "sent", "received"
    p_time,         \* datetime.utcnow() when the payload is formatted
    p_lat, p_lon,   \* locals lat and lon of main
    p_spd,          \* local speed_kmh of main
    p_text,         \* the payload text (None before it is formatted)
    p_rx            \* what receive_data_loop made of the line (None before)

\* State of sender.py (main loop and receiver thread on one SX126x object)
VARIABLES
    s_main,         \* main thread: "idle", "writing", "err_loaded",
                    \* "closed", "stopped"
    s_rx,           \* receiver thread: "idle", "reading", "err_loaded",
                    \* "dead"
    s_open,         \* the serial handle lora.ser is open
    s_count,        \* local "count" of main
    s_data,         \* the data the write in progress was given (None if none)
    s_written,      \* text of the last completed serial write (None if none)
    s_result,       \* what the last send returned (None if none yet)
    packets_sent, packets_received, errors,    \* fields of the SX126x object
    s_main_tmp,     \* value of self.errors the main thread loaded (None if none)
    s_rx_tmp,       \* value of self.errors the receiver thread loaded
    s_sends,        \* history: number of send calls that returned
    s_receives,     \* history: number of receive calls that found data
                    \* waiting or raised
    s_failures      \* history: number of SerialExceptions caught

\* State of the line framing of gps1.py (serial input buffer and readline)
VARIABLES
    fr_pc,          \* "init" (before init_gps), "loop"
    fr_buf,         \* bytes waiting in the GPS serial input buffer
    fr_rest,        \* bytes of the sentence in transmission that the GNSS
                    \* receiver has not put on the line yet
    fr_emitted,     \* number of sentences the GNSS receiver has begun
    fr_line,        \* local "line" of main: the text of the last readline
    fr_parsed,      \* history: number of lines handed to pynmea2.parse
    fr_whole,       \* history: number of complete sentences among them
    fr_dropped,     \* history: a text that is not a complete sentence was
                    \* dropped without being handed to pynmea2.parse
    fr_cut          \* history: a readline ended without its delimiter while
                    \* it held data, raised, or the buffer was reset with
                    \* data in it

fr_vars == <<fr_pc, fr_buf, fr_rest, fr_emitted, fr_line, fr_parsed,
             fr_whole, fr_dropped, fr_cut>>

\* State of test1.py (interactive sender of addressed frames)
VARIABLES
    t_pc,           \* "prompt", "stopped"
    t_open,         \* the serial handle node.ser is open
    t_input,        \* local user_input of the last iteration
    t_frame,        \* the data handed to node.send in that iteration (None
                    \* if none was)
    t_outcome,      \* what that iteration printed: "none" (before the first),
                    \* "blank", "sent", "error"
    t_inputs        \* number of inputs read

t_vars == <<t_pc, t_open, t_input, t_frame, t_outcome, t_inputs>>

deep_vars == <<sm_pc, ser_in, in_flight, response, commands, result, messages,
               module_mode>>

ant_vars == <<ant_pc, ant_gps_open, ant_lora_open, ant_buf, ant_emitted,
              ant_line, ant_sent, ant_tx, ant_newest>>

p_vars == <<p_pc, p_time, p_lat, p_lon, p_spd, p_text, p_rx>>

s_vars == <<s_main, s_rx, s_open, s_count, s_data, s_written, s_result,
            packets_sent, packets_received, errors, s_main_tmp, s_rx_tmp,
            s_sends, s_receives, s_failures>>

g_vars == <<g_pc, g_gps_open, g_lora_open, g_line, g_location, g_count,
            g_written, g_ok, g_now, g_last_tx>>

gps1_vars == <<pc, exit_code, HAS_SX126X, gps_open, at_open, driver_res,
               lora_iface, lora_handle, acquisitions,
               last_lat, last_lon, last_time, last_fix_valid,
               line, msg, dist_m, dt, speed_kmh, payload, ok, resp,
               tx_count, fail_since, now>>

vars == <<pc, exit_code, HAS_SX126X, gps_open, at_open, driver_res,
          lora_iface, lora_handle, acquisitions,
          last_lat, last_lon, last_time, last_fix_valid,
          line, msg, dist_m, dt, speed_kmh, payload, ok, resp,
          tx_count, fail_since, now,
          sm_pc, ser_in, in_flight, response, commands, result, messages,
          module_mode,
          ant_pc, ant_gps_open, ant_lora_open, ant_buf, ant_emitted,
          ant_line, ant_sent, ant_tx, ant_newest,
          g_pc, g_gps_open, g_lora_open, g_line, g_location, g_count,
          g_written, g_ok, g_now, g_last_tx,
          p_pc, p_time, p_lat, p_lon, p_spd, p_text, p_rx,
          s_main, s_rx, s_open, s_count, s_data, s_written, s_result,
          packets_sent, packets_received, errors, s_main_tmp, s_rx_tmp,
          s_sends, s_receives, s_failures,
          fr_pc, fr_buf, fr_rest, fr_emitted, fr_line, fr_parsed,
          fr_whole, fr_dropped, fr_cut,
          t_pc, t_open, t_input, t_frame, t_outcome, t_inputs>>

\* Everything that is not state of gps1.py, of deep.py, of ant.py, of gps.py,
\* of the payload, of sender.py, of the line framing, of test1.py.
not_gps1_vars == <<deep_vars, ant_vars, g_vars, p_vars, s_vars,
                   fr_vars, t_vars>>
not_deep_vars == <<gps1_vars, ant_vars, g_vars, p_vars, s_vars,
                   fr_vars, t_vars>>
not_ant_vars == <<gps1_vars, deep_vars, g_vars, p_vars, s_vars,
                  fr_vars, t_vars>>
not_g_vars == <<gps1_vars, deep_vars, ant_vars, p_vars, s_vars,
                fr_vars, t_vars>>
not_p_vars == <<gps1_vars, deep_vars, ant_vars, g_vars, s_vars,
                fr_vars, t_vars>>
not_s_vars == <<gps1_vars, deep_vars, ant_vars, g_vars, p_vars,
                fr_vars, t_vars>>
not_fr_vars == <<gps1_vars, deep_vars, ant_vars, g_vars, p_vars,
                 s_vars, t_vars>>
not_t_vars == <<gps1_vars, deep_vars, ant_vars, g_vars, p_vars,
                s_vars, fr_vars>>

startup_vars == <<HAS_SX126X, driver_res, lora_iface, lora_handle,
                  acquisitions>>
motion_vars == <<last_lat, last_lon, last_time, last_fix_valid>>
calc_vars == <<dist_m, dt, speed_kmh>>
send_vars == <<payload, ok, resp, tx_count, fail_since>>

\* ---------------------------------------------------------------------------
\* Start-up
\* ---------------------------------------------------------------------------
\* init_lora_driver: None without the dependency or when begin() raises,
\* otherwise ('sx', lora).
init_lora_driver(has_dep, begin_ok) ==
    IF ~has_dep THEN None
    ELSE IF begin_ok THEN <<"sx", "sx_obj">>
    ELSE None

\* init_lora_at: None when the port is missing or cannot be opened, otherwise
\* ('at', at); the AT configuration commands are best-effort and their
\* replies do not change the result.
init_lora_at(port_exists, open_ok) ==
    IF ~port_exists THEN None
    ELSE IF ~open_ok THEN None
    ELSE <<"at", "at_serial">>

\* Variant of SelectBackend in which the AT fallback is not guarded by
\* "if lora_iface is None" and overrides a driver that initialised.
SelectBackend_AtOverrides(has_dep, begin_ok, port_exists, open_ok) ==
    LET res1 == IF has_dep THEN init_lora_driver(has_dep, begin_ok) ELSE None
        res2 == init_lora_at(port_exists, open_ok)
    IN  IF res2 # None
        THEN [iface |-> res2[1], handle |-> res2[2], driver |-> res1]
        ELSE IF res1 # None
        THEN [iface |-> res1[1], handle |-> res1[2], driver |-> res1]
        ELSE [iface |-> "None", handle |-> "None", driver |-> res1]

\* The selection in main: the driver is asked only if HAS_SX126X, the AT
\* fallback only if lora_iface is still None.  The result is the pair
\* (lora_iface, lora_handle) plus what init_lora_driver returned.
SelectBackend(has_dep, begin_ok, port_exists, open_ok) ==
    LET res1 == IF has_dep THEN init_lora_driver(has_dep, begin_ok) ELSE None
        res2 == init_lora_at(port_exists, open_ok)
    IN  IF res1 # None
        THEN [iface |-> res1[1], handle |-> res1[2], driver |-> res1]
        ELSE IF res2 # None
        THEN [iface |-> res2[1], handle |-> res2[2], driver |-> res1]
        ELSE [iface |-> "None", handle |-> "None", driver |-> res1]

\* Variant of InitialMotion that starts from a default fix instead of None.
InitialMotion_DefaultFix ==
    [lat |-> Some(129716000), lon |-> Some(775946000), time |-> Some(0),
     valid |-> TRUE]

\* "last_lat = last_lon = last_time = None; last_fix_valid = False"
InitialMotion ==
    [lat |-> None, lon |-> None, time |-> None, valid |-> FALSE]

\* LoRaCommunicator after initialize_lora: buffers cleared, nothing sent.
InitDeep ==
    /\ sm_pc = "idle"
    /\ ser_in = <<>>
    /\ in_flight = <<>>
    /\ response = <<>>
    /\ commands = <<>>
    /\ result = None
    /\ messages = 0
    /\ module_mode = 0

\* ant.py after its module-level initialisation: both serial handles open,
\* nothing read, nothing sent.
InitAnt ==
    /\ ant_pc = "loop"
    /\ ant_gps_open = TRUE
    /\ ant_lora_open = TRUE
    /\ ant_buf = <<>>
    /\ ant_emitted = 0
    /\ ant_line = [kind |-> "none"]
    /\ ant_sent = None
    /\ ant_tx = 0
    /\ ant_newest = 0

\* gps.py after "lora = SX126x()" and "gps = GPSModule()": both serial
\* handles open, count = 1.
InitGps ==
    /\ g_pc = "loop"
    /\ g_gps_open = TRUE
    /\ g_lora_open = TRUE
    /\ g_line = [kind |-> "none"]
    /\ g_location = None
    /\ g_count = 1
    /\ g_written = None
    /\ g_ok = None
    /\ g_now = 0
    /\ g_last_tx = None

\* No payload is being formatted.
InitPayload ==
    /\ p_pc = "idle"
    /\ p_time = None
    /\ p_lat = None /\ p_lon = None /\ p_spd = None
    /\ p_text = None
    /\ p_rx = None

\* sender.py after "lora = SX126x(baudrate=BAUDRATE)" and the start of the
\* receiver thread: the port is open, the counters are 0, count = 1.
InitSender ==
    /\ s_main = "idle"
    /\ s_rx = "idle"
    /\ s_open = TRUE
    /\ s_count = 1
    /\ s_data = None
    /\ s_written = None
    /\ s_result = None
    /\ packets_sent = 0 /\ packets_received = 0 /\ errors = 0
    /\ s_main_tmp = None /\ s_rx_tmp = None
    /\ s_sends = 0 /\ s_receives = 0 /\ s_failures = 0

\* The GPS port has not been opened yet; the GNSS receiver has sent nothing.
InitFramer ==
    /\ fr_pc = "init"
    /\ fr_buf = <<>>
    /\ fr_rest = <<>>
    /\ fr_emitted = 0
    /\ fr_line = <<>>
    /\ fr_parsed = 0
    /\ fr_whole = 0
    /\ fr_dropped = FALSE
    /\ fr_cut = FALSE

\* test1.py after "node = sx126x(...)": the port is open, nothing was typed.
InitTest1 ==
    /\ t_pc = "prompt"
    /\ t_open = TRUE
    /\ t_input = <<>>
    /\ t_frame = None
    /\ t_outcome = "none"
    /\ t_inputs = 0

\* The programs other than gps1.py after their construction.
InitOthers ==
    /\ InitDeep
    /\ InitAnt
    /\ InitGps
    /\ InitPayload
    /\ InitSender
    /\ InitFramer
    /\ InitTest1

Init ==
    /\ InitOthers
    /\ pc = "init_gps"
    /\ exit_code = None
    /\ HAS_SX126X \in BOOLEAN
    /\ gps_open = FALSE
    /\ at_open = FALSE
    /\ driver_res = <<"not_called">>
    /\ lora_iface = "None"
    /\ lora_handle = "None"
    /\ acquisitions = 0
    /\ last_lat = InitialMotion.lat /\ last_lon = InitialMotion.lon
    /\ last_time = InitialMotion.time
    /\ last_fix_valid = InitialMotion.valid
    /\ line = "" /\ msg = NoMsg
    /\ dist_m = None /\ dt = None /\ speed_kmh = 0
    /\ payload = None /\ ok = None /\ resp = None
    /\ tx_count = 0 /\ fail_since = None
    /\ now = 0

\* init_gps succeeded: the port exists and serial.Serial opened it.
init_gps_ok ==
    /\ UNCHANGED not_gps1_vars
    /\ pc = "init_gps"
    /\ pc' = "select"
    /\ gps_open' = TRUE
    /\ UNCHANGED <<exit_code, at_open, line, msg, now>>
    /\ UNCHANGED <<startup_vars, motion_vars, calc_vars, send_vars>>

\* init_gps failed: port missing or SerialException -> sys.exit(1).
init_gps_fail ==
    /\ UNCHANGED not_gps1_vars
    /\ pc = "init_gps"
    /\ pc' = "exited"
    /\ exit_code' = Some(1)
    /\ UNCHANGED <<gps_open, at_open, line, msg, now>>
    /\ UNCHANGED <<startup_vars, motion_vars, calc_vars, send_vars>>

\* main, from "lora_iface = None" to the banner: choose the backend or exit.
select_backend ==
    /\ UNCHANGED not_gps1_vars
    /\ pc = "select"
    /\ \E begin_ok \in BOOLEAN, port_exists \in BOOLEAN, open_ok \in BOOLEAN :
         LET sel == SelectBackend(HAS_SX126X, begin_ok, port_exists, open_ok)
         IN  /\ lora_iface' = sel.iface
             /\ lora_handle' = sel.handle
             /\ driver_res' = sel.driver
             /\ at_open' = (sel.iface = "at")
             /\ acquisitions' = acquisitions + 1
             /\ IF sel.iface = "None"
                THEN pc' = "exited" /\ exit_code' = Some(1)
                ELSE pc' = "loop" /\ exit_code' = exit_code
    /\ UNCHANGED <<HAS_SX126X, gps_open, line, msg, now>>
    /\ UNCHANGED <<motion_vars, calc_vars, send_vars>>

\* ---------------------------------------------------------------------------
\* send_lora
\* ---------------------------------------------------------------------------
\* Which of the probed attributes the SX126x object has: send, the packet
\* interface, write, or none of them.
SxApis == {"send", "packet", "write", "none"}

\* Replies the AT modem may have pending when send_lora reads them.
Replies == {"", "OK", "ERROR"}

\* Variant of send_lora whose 'sx' branch has no try/except: an exception of
\* the driver leaves the function.
send_lora_sx_unguarded(iface, api, raises, reply) ==
    IF iface = "sx"
    THEN IF api \in {"send", "packet", "write"}
         THEN [ok |-> ~raises, resp |-> None, propagated |-> raises]
         ELSE [ok |-> FALSE, resp |-> None, propagated |-> FALSE]
    ELSE IF iface = "at"
    THEN IF raises
         THEN [ok |-> FALSE, resp |-> None, propagated |-> FALSE]
         ELSE [ok |-> TRUE, resp |-> Some(reply), propagated |-> FALSE]
    ELSE [ok |-> FALSE, resp |-> None, propagated |-> FALSE]

\* Variant of send_lora whose 'at' branch has no try/except: a serial
\* exception leaves the function.
send_lora_at_unguarded(iface, api, raises, reply) ==
    IF iface = "sx"
    THEN IF api \in {"send", "packet", "write"}
         THEN [ok |-> ~raises, resp |-> None, propagated |-> FALSE]
         ELSE [ok |-> FALSE, resp |-> None, propagated |-> FALSE]
    ELSE IF iface = "at"
    THEN IF raises
         THEN [ok |-> FALSE, resp |-> None, propagated |-> TRUE]
         ELSE [ok |-> TRUE, resp |-> Some(reply), propagated |-> FALSE]
    ELSE [ok |-> FALSE, resp |-> None, propagated |-> FALSE]

\* send_lora(iface, handle, text).  "api" is the API the SX126x object
\* exposes, "raises" says that the transport call raised, "reply" is what
\* at.read_all() returned.  The result is the returned outcome, the reply
\* read (None if none was) and whether an exception left the function.
send_lora(iface, api, raises, reply) ==
    IF iface = "sx"
    THEN IF api \in {"send", "packet", "write"}
         THEN [ok |-> ~raises, resp |-> None, propagated |-> FALSE]
         \* no known API: the last-resort lora.send(bytes) raises and is
         \* swallowed by the inner except
         ELSE [ok |-> FALSE, resp |-> None, propagated |-> FALSE]
    ELSE IF iface = "at"
    THEN IF raises
         THEN [ok |-> FALSE, resp |-> None, propagated |-> FALSE]
         ELSE [ok |-> TRUE, resp |-> Some(reply), propagated |-> FALSE]
    ELSE [ok |-> FALSE, resp |-> None, propagated |-> FALSE]

\* ---------------------------------------------------------------------------
\* Motion update
\* ---------------------------------------------------------------------------
\* current_time = gps_time if gps_time else time.time()
CurrentTime(m, clock) ==
    IF m.timestamp # None /\ Val(m.timestamp) # 0
    THEN Val(m.timestamp) ELSE clock

\* "if not (... msg.latitude and msg.longitude)": a float 0.0 is falsy.
HasPosition(m) == m.latitude # 0 /\ m.longitude # 0

\* Variant of DistOf whose guard leaves out last_fix_valid.
DistOf_IgnoresValidity(valid, llat, llon, ltime, lat, lon) ==
    IF llat # None /\ llon # None /\ ltime # None
    THEN Some(haversine_m(Val(llat), Val(llon), lat, lon))
    ELSE None

\* dist_m of the speed calculation (None when the guard on the stored fix
\* fails and haversine_m is not called).
DistOf(valid, llat, llon, ltime, lat, lon) ==
    IF valid /\ llat # None /\ llon # None /\ ltime # None
    THEN Some(haversine_m(Val(llat), Val(llon), lat, lon))
    ELSE None

\* dt = current_time - last_time, under the same guard.
DtOf(valid, llat, llon, ltime, t) ==
    IF valid /\ llat # None /\ llon # None /\ ltime # None
    THEN Some(t - Val(ltime))
    ELSE None

\* "dist_m > 0.5": the jitter threshold, 0.5 m in micrometres.
JitterThreshold == 500000

\* Variant of ResetSpeed without the assignment: speed_kmh keeps the value of
\* the previous iteration.
ResetSpeed_Missing(prev) == prev

\* "speed_kmh = 0.0" at the top of the speed calculation: the value left by
\* the previous iteration is overwritten.
ResetSpeed(prev) == 0

\* Variant of SpeedOf without the "dist_m > 0.5" jitter test.
SpeedOf_NoJitterTest(spd0, d, e) ==
    IF d # None /\ e # None /\ Val(e) > 0
    THEN ((Val(d) \div 1000) * 36 + Val(e) * 50) \div (Val(e) * 100)
    ELSE spd0

\* Variant of SpeedOf without the factor 3.6: metres per second.
SpeedOf_MetresPerSecond(spd0, d, e) ==
    IF d # None /\ e # None /\ Val(e) > 0 /\ Val(d) > JitterThreshold
    THEN ((Val(d) \div 1000) * 10 + Val(e) * 50) \div (Val(e) * 100)
    ELSE spd0

\* speed_kmh in 0.01 km/h: (dist_m / dt) * 3.6 when dt > 0 and
\* dist_m > 0.5 m, else the value it had (spd0).  d is in micrometres:
\* d/1e6/e*3.6*100 = (d/1000)*36/(e*100), rounded to the nearest unit.
SpeedOf(spd0, d, e) ==
    IF d # None /\ e # None /\ Val(e) > 0 /\ Val(d) > JitterThreshold
    THEN ((Val(d) \div 1000) * 36 + Val(e) * 50) \div (Val(e) * 100)
    ELSE spd0

\* Variant of FormatPayload that prints the speed without decimals.
FormatPayload_IntSpeed(lat, lon, spd) ==
    [lat |-> lat, lon |-> lon, spd |-> spd - (spd % 100)]

\* payload = f"{timestamp} LAT:{lat:.7f} LON:{lon:.7f} SPD:{speed_kmh:.2f}km/h"
\* as the values of its three numeric fields.
FormatPayload(lat, lon, spd) == [lat |-> lat, lon |-> lon, spd |-> spd]

\* Variant of Sleep that returns at once.
Sleep_Skipped(t, seconds) == t

\* time.sleep(seconds) entered at time t: the time at which it returns.
Sleep(t, seconds) == t + seconds

\* ---------------------------------------------------------------------------
\* Main loop, one action per way through an iteration
\* ---------------------------------------------------------------------------
\* readline timed out, returned a blank line or raised: sleep 0.05, continue.
read_empty ==
    /\ UNCHANGED not_gps1_vars
    /\ pc = "loop"
    /\ line' = ""
    /\ msg' = NoMsg
    /\ \E adv \in {0, 1} : /\ now + adv <= MaxTime
                           /\ now' = now + adv
    /\ UNCHANGED <<pc, exit_code, gps_open, at_open>>
    /\ UNCHANGED <<startup_vars, motion_vars, calc_vars, send_vars>>

\* a line that is none of $GPGGA, $GPRMC, $GNGGA, $GNRMC: ignored.
read_other ==
    /\ UNCHANGED not_gps1_vars
    /\ pc = "loop"
    /\ line' = "other"
    /\ msg' = NoMsg
    /\ UNCHANGED <<pc, exit_code, gps_open, at_open, now>>
    /\ UNCHANGED <<startup_vars, motion_vars, calc_vars, send_vars>>

\* a supported prefix but pynmea2.parse raised ParseError: continue.
read_parse_error ==
    /\ UNCHANGED not_gps1_vars
    /\ pc = "loop"
    /\ line' = "unparsable"
    /\ msg' = NoMsg
    /\ UNCHANGED <<pc, exit_code, gps_open, at_open, now>>
    /\ UNCHANGED <<startup_vars, motion_vars, calc_vars, send_vars>>

\* The sentinel payload the specification describes for the time before the
\* first fix.
NO_FIX == [sentinel |-> "NO_FIX"]

\* Variant of read_no_position that hands the sentinel to send_lora before
\* it continues.
read_no_position_SendsSentinel(Msgs) ==
    /\ UNCHANGED not_gps1_vars
    /\ pc = "loop"
    /\ \E m \in Msgs :
         /\ ~HasPosition(m)
         /\ msg' = m
    /\ line' = "sentence"
    /\ last_fix_valid' = FALSE
    /\ payload' = Some(NO_FIX)
    /\ ok' = Some(TRUE)
    /\ tx_count' = tx_count + 1
    /\ UNCHANGED <<last_lat, last_lon, last_time, resp, fail_since>>
    /\ UNCHANGED <<pc, exit_code, gps_open, at_open, now>>
    /\ UNCHANGED <<startup_vars, calc_vars>>

\* a parsed sentence without (truthy) latitude/longitude:
\* last_fix_valid = False, continue.
read_no_position(Msgs) ==
    /\ UNCHANGED not_gps1_vars
    /\ pc = "loop"
    /\ \E m \in Msgs :
         /\ ~HasPosition(m)
         /\ msg' = m
    /\ line' = "sentence"
    /\ last_fix_valid' = FALSE
    /\ UNCHANGED <<last_lat, last_lon, last_time>>
    /\ UNCHANGED <<pc, exit_code, gps_open, at_open, now>>
    /\ UNCHANGED <<startup_vars, calc_vars, send_vars>>

\* a parsed sentence with a position: speed calculation, store, format,
\* send_lora, sleep(SEND_INTERVAL).
read_fix(Msgs, Apis) ==
    /\ UNCHANGED not_gps1_vars
    /\ pc = "loop"
    /\ now + SEND_INTERVAL <= MaxTime
    /\ \E m \in Msgs, raises \in BOOLEAN,
          api \in (IF lora_iface = "sx" THEN Apis ELSE {"none"}),
          reply \in (IF lora_iface = "at" THEN Replies ELSE {""}) :
         /\ HasPosition(m)
         /\ msg' = m
         /\ LET lat == m.latitude
                lon == m.longitude
                current_time == CurrentTime(m, now)
                d == DistOf(last_fix_valid, last_lat, last_lon, last_time, lat, lon)
                e == DtOf(last_fix_valid, last_lat, last_lon, last_time, current_time)
                spd == SpeedOf(ResetSpeed(speed_kmh), d, e)
                out == send_lora(lora_iface, api, raises, reply)
            IN  /\ dist_m' = d
                /\ dt' = e
                /\ speed_kmh' = spd
                /\ last_lat' = Some(lat)
                /\ last_lon' = Some(lon)
                /\ last_time' = Some(current_time)
                /\ last_fix_valid' = TRUE
                /\ payload' = Some(FormatPayload(lat, lon, spd))
                /\ ok' = Some(out.ok)
                /\ resp' = out.resp
                /\ tx_count' = tx_count + 1
                /\ fail_since' = IF out.ok THEN None
                                 ELSE IF fail_since = None THEN Some(now)
                                 ELSE fail_since
                /\ IF out.propagated
                   THEN pc' = "exited" /\ exit_code' = Some(1)
                   ELSE pc' = "loop" /\ exit_code' = exit_code
    /\ line' = "sentence"
    /\ now' = Sleep(now, SEND_INTERVAL)
    /\ UNCHANGED <<gps_open, at_open>>
    /\ UNCHANGED startup_vars

\* KeyboardInterrupt in the loop: the finally block closes the GPS serial
\* and, for the AT backend, the AT serial; the process ends with status 0.
keyboard_interrupt ==
    /\ UNCHANGED not_gps1_vars
    /\ pc = "loop"
    /\ pc' = "stopped"
    /\ exit_code' = Some(0)
    /\ gps_open' = FALSE
    /\ at_open' = IF lora_iface = "at" /\ lora_handle # "None"
                  THEN FALSE ELSE at_open
    /\ UNCHANGED <<line, msg, now>>
    /\ UNCHANGED <<startup_vars, motion_vars, calc_vars, send_vars>>

\* ---------------------------------------------------------------------------
\* deep.py: LoRaCommunicator.send_command and send_message
\* ---------------------------------------------------------------------------
\* A reply of the modem, tagged with the command it answers.
Reply(cmd, text) == [cmd |-> cmd, text |-> text]

\* send_command(command): write the command, sleep wait_time, read_all.
\* rx is the input buffer and flight the replies still on their way when the
\* command is written; they arrive during the wait.  write_ok = FALSE is an
\* exception of write (caught, "" returned, nothing read).  answer is the
\* modem's reply to this command ("" for none) and late says that it arrives
\* only after read_all.  The result is the response returned and the new
\* buffer and in-flight replies.
send_command(cmd, rx, flight, write_ok, answer, late) ==
    IF ~write_ok
    THEN [response |-> <<>>, ser_in |-> rx \o flight, in_flight |-> <<>>]
    ELSE IF answer = ""
    THEN [response |-> rx \o flight, ser_in |-> <<>>, in_flight |-> <<>>]
    ELSE IF late
    THEN [response |-> rx \o flight, ser_in |-> <<>>,
          in_flight |-> <<Reply(cmd, answer)>>]
    ELSE [response |-> (rx \o flight) \o <<Reply(cmd, answer)>>,
          ser_in |-> <<>>, in_flight |-> <<>>]

\* The mode of the modem after a command AT+MODE=<m>: the command takes
\* effect if its write reached the modem and the modem did not answer ERROR.
ModeAfter(mode, m, write_ok, answer) ==
    IF write_ok /\ answer # "ERROR" THEN m ELSE mode

\* 'OK' in response
HasOK(r) == \E i \in 1..Len(r) : r[i].text = "OK"

\* send_message, first command: switch to transmit mode.
send_message_mode1 ==
    /\ sm_pc = "idle"
    /\ messages < MaxMessages
    /\ \E write_ok \in BOOLEAN, answer \in Replies, late \in BOOLEAN :
         LET r == send_command("AT+MODE=1", ser_in, in_flight,
                               write_ok, answer, late)
         IN  /\ ser_in' = r.ser_in
             /\ in_flight' = r.in_flight
             /\ module_mode' = ModeAfter(module_mode, 1, write_ok, answer)
    /\ commands' = <<"AT+MODE=1">>
    /\ response' = <<>>
    /\ sm_pc' = "mode1"
    /\ UNCHANGED <<result, messages>>
    /\ UNCHANGED not_deep_vars

\* send_message, second command: AT+SEND=<message>; its response is kept.
send_message_send ==
    /\ sm_pc = "mode1"
    /\ \E write_ok \in BOOLEAN, answer \in Replies, late \in BOOLEAN :
         LET r == send_command("AT+SEND", ser_in, in_flight,
                               write_ok, answer, late)
         IN  /\ ser_in' = r.ser_in
             /\ in_flight' = r.in_flight
             /\ response' = r.response
    /\ commands' = Append(commands, "AT+SEND")
    /\ sm_pc' = "sent"
    /\ UNCHANGED <<result, messages, module_mode>>
    /\ UNCHANGED not_deep_vars

\* send_message, third command and return: back to receive mode, then
\* True if 'OK' is in the response of AT+SEND, else False.
send_message_mode0 ==
    /\ sm_pc = "sent"
    /\ \E write_ok \in BOOLEAN, answer \in Replies, late \in BOOLEAN :
         LET r == send_command("AT+MODE=0", ser_in, in_flight,
                               write_ok, answer, late)
         IN  /\ ser_in' = r.ser_in
             /\ in_flight' = r.in_flight
             /\ module_mode' = ModeAfter(module_mode, 0, write_ok, answer)
    /\ commands' = Append(commands, "AT+MODE=0")
    /\ result' = Some(HasOK(response))
    /\ messages' = messages + 1
    /\ sm_pc' = "idle"
    /\ UNCHANGED response
    /\ UNCHANGED not_deep_vars

NextDeep ==
    \/ send_message_mode1
    \/ send_message_send
    \/ send_message_mode0

\* The AT-command communicator sending messages.
SpecDeep == Init /\ [][NextDeep]_vars

\* ---------------------------------------------------------------------------
\* NMEA fields as text
\* ---------------------------------------------------------------------------
\* A field is the sequence of its characters.
Digits == {"0", "1", "2", "3", "4", "5", "6", "7", "8", "9"}

DigitVal(c) ==
    CASE c = "0" -> 0 [] c = "1" -> 1 [] c = "2" -> 2 [] c = "3" -> 3
      [] c = "4" -> 4 [] c = "5" -> 5 [] c = "6" -> 6 [] c = "7" -> 7
      [] c = "8" -> 8 [] c = "9" -> 9

Min(a, b) == IF a < b THEN a ELSE b

\* Python slices text[:n] and text[n:], which never raise.
Prefix(text, n) == SubSeq(text, 1, Min(n, Len(text)))
Suffix(text, n) == IF n >= Len(text) THEN <<>> ELSE SubSeq(text, n + 1, Len(text))

\* Index of the first "." of a text, Len + 1 if it has none.
DotAt(text) ==
    IF \E i \in 1..Len(text) : text[i] = "."
    THEN CHOOSE i \in 1..Len(text) :
            text[i] = "." /\ \A j \in 1..(i - 1) : text[j] # "."
    ELSE Len(text) + 1

RECURSIVE NatOf(_)
\* Value of a run of digits ("" counts 0).
NatOf(ds) ==
    IF ds = <<>> THEN 0
    ELSE NatOf(SubSeq(ds, 1, Len(ds) - 1)) * 10 + DigitVal(ds[Len(ds)])

RECURSIVE Pow10(_)
Pow10(k) == IF k = 0 THEN 1 ELSE 10 * Pow10(k - 1)

\* float(text) of an unsigned text in units of 10^-nd: None stands for
\* ValueError.  Accepted are digits with at most one "." and at least one
\* digit; fraction digits after the nd-th are below the unit and dropped.
ParseDecimal(text, nd) ==
    LET p == DotAt(text)
        whole == Prefix(text, p - 1)
        frac == Suffix(text, p)
        numeric == /\ \A i \in 1..Len(whole) : whole[i] \in Digits
                   /\ \A i \in 1..Len(frac) : frac[i] \in Digits
                   /\ Len(whole) + Len(frac) > 0
        fn == Prefix(frac, nd)
    IN  IF numeric
        THEN Some(NatOf(whole) * Pow10(nd) + NatOf(fn) * Pow10(nd - Len(fn)))
        ELSE None

\* float(text) of an NMEA field in units of 1e-4, the resolution of the
\* minutes.
ParseFloat(text) == ParseDecimal(text, 4)

\* ---------------------------------------------------------------------------
\* ant.py
\* ---------------------------------------------------------------------------
\* convert_to_decimal(raw_val, direction): None for an empty field or
\* direction; float(raw_val) raises ValueError on a field that is not a
\* number; else degrees = int(raw_val // 100), minutes = raw_val % 100,
\* decimal = degrees + minutes / 60, negated for S and W, rounded to six
\* decimals.  The value is in 1e-6 degree: a minute unit of 1e-4 is 10/6 of
\* it.
convert_to_decimal(raw_val, direction) ==
    IF raw_val = <<>> \/ direction = ""
    THEN [raised |-> FALSE, value |-> None]
    ELSE IF ParseFloat(raw_val) = None
    THEN [raised |-> TRUE, value |-> None]
    ELSE LET degrees == Val(ParseFloat(raw_val)) \div 1000000
             minutes == Val(ParseFloat(raw_val)) % 1000000
             decimal == degrees * 1000000 + (minutes * 10 + 3) \div 6
         IN  [raised |-> FALSE,
              value |-> Some(IF direction \in {"S", "W"}
                             THEN 0 - decimal ELSE decimal)]

\* Coordinate fields of the lines the GNSS receiver emits.
Lat1258 == <<"1", "2", "5", "8", ".", "2", "9", "6", "0">>
Lon07735 == <<"0", "7", "7", "3", "5", ".", "6", "7", "6", "0">>
Lat3351 == <<"3", "3", "5", "1", ".", "0", "0", "0">>
Lon15112 == <<"1", "5", "1", "1", "2", ".", "5">>
LatCorrupt == <<"1", "2", "x", "8", ".", "2", "9", "6", "0">>

\* A line split at the commas: the sentence identifier, whether it has enough
\* fields for its coordinates (len(parts) > 5 resp. > 6), and the four
\* coordinate fields.
NmeaLine(kind, enough, lat, lat_dir, lon, lon_dir) ==
    [kind |-> kind, enough |-> enough, raw_lat |-> lat, lat_dir |-> lat_dir,
     raw_lon |-> lon, lon_dir |-> lon_dir]

NoLine == [kind |-> "none"]

\* Lines with a position, in the four hemisphere combinations used.
PositionLines ==
    {NmeaLine("GPGGA", TRUE, Lat1258, "N", Lon07735, "E"),
     NmeaLine("GPRMC", TRUE, Lat3351, "S", Lon15112, "E"),
     NmeaLine("GPGGA", TRUE, Lat3351, "N", Lon07735, "W")}

\* Lines without one: no fix yet (empty fields), a truncated sentence,
\* another sentence type.
SkippedLines ==
    {NmeaLine("GPGGA", TRUE, <<>>, "", <<>>, ""),
     NmeaLine("GPRMC", FALSE, <<>>, "", <<>>, ""),
     NmeaLine("GPGSV", TRUE, <<>>, "", <<>>, "")}

\* A sentence whose latitude field has a character that is not a digit.
CorruptLines ==
    {NmeaLine("GPGGA", TRUE, LatCorrupt, "N", Lon07735, "E")}

NmeaLines == PositionLines \cup SkippedLines \cup CorruptLines

\* One iteration of the main loop on a line, up to the test before the send:
\* "skip" when the line is ignored, "raise" when convert_to_decimal raised
\* (nothing in the loop catches ValueError), "fix" with the coordinates.
ParseLine(l) ==
    IF l.kind \notin {"GPGGA", "GPRMC"} \/ ~l.enough
    THEN [res |-> "skip", lat |-> None, lon |-> None]
    ELSE LET latitude == convert_to_decimal(l.raw_lat, l.lat_dir)
             longitude == convert_to_decimal(l.raw_lon, l.lon_dir)
         IN  IF latitude.raised \/ longitude.raised
             THEN [res |-> "raise", lat |-> None, lon |-> None]
             ELSE IF latitude.value # None /\ longitude.value # None
             THEN [res |-> "fix", lat |-> latitude.value,
                   lon |-> longitude.value]
             ELSE [res |-> "skip", lat |-> None, lon |-> None]

\* The GNSS receiver emits a line into the serial input buffer of "gps".
gnss_emit ==
    /\ ant_pc = "loop"
    /\ ant_emitted < MaxLines
    /\ \E l \in NmeaLines :
         /\ ant_buf' = Append(ant_buf, [n |-> ant_emitted + 1, text |-> l])
         /\ ant_newest' = IF ParseLine(l).res = "fix"
                          THEN ant_emitted + 1 ELSE ant_newest
    /\ ant_emitted' = ant_emitted + 1
    /\ UNCHANGED <<ant_pc, ant_gps_open, ant_lora_open, ant_line, ant_sent,
                   ant_tx>>
    /\ UNCHANGED not_ant_vars

\* gps.readline() timed out on an empty buffer: the empty line has neither
\* prefix.
ant_read_timeout ==
    /\ ant_pc = "loop"
    /\ ant_buf = <<>>
    /\ ant_line' = NoLine
    /\ UNCHANGED <<ant_pc, ant_gps_open, ant_lora_open, ant_buf, ant_emitted,
                   ant_sent, ant_tx, ant_newest>>
    /\ UNCHANGED not_ant_vars

\* One line read and ignored: other sentence, too few fields, empty fields.
ant_read_skip ==
    /\ ant_pc = "loop"
    /\ ant_buf # <<>>
    /\ ParseLine(Head(ant_buf).text).res = "skip"
    /\ ant_line' = Head(ant_buf).text
    /\ ant_buf' = Tail(ant_buf)
    /\ UNCHANGED <<ant_pc, ant_gps_open, ant_lora_open, ant_emitted,
                   ant_sent, ant_tx, ant_newest>>
    /\ UNCHANGED not_ant_vars

\* One line read whose conversion raised ValueError: the exception leaves the
\* loop (only KeyboardInterrupt is handled) and ends the program.
ant_read_raise ==
    /\ ant_pc = "loop"
    /\ ant_buf # <<>>
    /\ ParseLine(Head(ant_buf).text).res = "raise"
    /\ ant_line' = Head(ant_buf).text
    /\ ant_buf' = Tail(ant_buf)
    /\ ant_pc' = "crashed"
    /\ UNCHANGED <<ant_gps_open, ant_lora_open, ant_emitted,
                   ant_sent, ant_tx, ant_newest>>
    /\ UNCHANGED not_ant_vars

\* One line read with a position: lora.send(gps_data), then sleep(2).  An
\* exception of the serial write is not handled either.
ant_read_fix ==
    /\ ant_pc = "loop"
    /\ ant_buf # <<>>
    /\ LET head == Head(ant_buf)
           r == ParseLine(head.text)
       IN  /\ r.res = "fix"
           /\ ant_line' = head.text
           /\ \E raises \in BOOLEAN :
                IF raises
                THEN ant_pc' = "crashed" /\ ant_sent' = ant_sent
                ELSE /\ ant_pc' = ant_pc
                     /\ ant_sent' = Some([lat |-> Val(r.lat),
                                          lon |-> Val(r.lon), n |-> head.n])
    /\ ant_buf' = Tail(ant_buf)
    /\ ant_tx' = ant_tx + 1
    /\ UNCHANGED <<ant_gps_open, ant_lora_open, ant_emitted, ant_newest>>
    /\ UNCHANGED not_ant_vars

\* KeyboardInterrupt: lora.free_serial() and gps.close().
ant_keyboard_interrupt ==
    /\ ant_pc = "loop"
    /\ ant_pc' = "stopped"
    /\ ant_lora_open' = FALSE
    /\ ant_gps_open' = FALSE
    /\ UNCHANGED <<ant_buf, ant_emitted, ant_line, ant_sent, ant_tx,
                   ant_newest>>
    /\ UNCHANGED not_ant_vars

NextAnt ==
    \/ gnss_emit
    \/ ant_read_timeout
    \/ ant_read_skip
    \/ ant_read_raise
    \/ ant_read_fix
    \/ ant_keyboard_interrupt

\* ant.py reading the lines of the GNSS receiver.
SpecAnt == Init /\ [][NextAnt]_vars

\* ---------------------------------------------------------------------------
\* Numbers as text
\* ---------------------------------------------------------------------------
DigitChar(d) ==
    CASE d = 0 -> "0" [] d = 1 -> "1" [] d = 2 -> "2" [] d = 3 -> "3"
      [] d = 4 -> "4" [] d = 5 -> "5" [] d = 6 -> "6" [] d = 7 -> "7"
      [] d = 8 -> "8" [] d = 9 -> "9"

RECURSIVE PadDigits(_, _)
\* The last "width" decimal digits of n, with leading zeros.
PadDigits(n, width) ==
    IF width = 0 THEN <<>>
    ELSE Append(PadDigits(n \div 10, width - 1), DigitChar(n % 10))

RECURSIVE NatDigits(_)
\* The decimal digits of n without leading zeros ("0" for 0).
NatDigits(n) ==
    IF n < 10 THEN <<DigitChar(n)>>
    ELSE Append(NatDigits(n \div 10), DigitChar(n % 10))

\* Variant of FormatFixed that drops the sign.
FormatFixed_NoSign(neg, scaled, nd) ==
    NatDigits(scaled \div Pow10(nd))
        \o <<".">>
        \o PadDigits(scaled % Pow10(nd), nd)

\* The text of format(x, ".<nd>f") for the number x whose magnitude, rounded
\* to nd decimals, is scaled / 10^nd and whose sign bit is neg: an optional
\* "-", the digits of the whole part, ".", and exactly nd fraction digits.
FormatFixed(neg, scaled, nd) ==
    (IF neg THEN <<"-">> ELSE <<>>)
        \o NatDigits(scaled \div Pow10(nd))
        \o <<".">>
        \o PadDigits(scaled % Pow10(nd), nd)

\* ---------------------------------------------------------------------------
\* gps.py
\* ---------------------------------------------------------------------------
\* SEND_INTERVAL = 2.0 of gps.py, seconds.
SEND_INTERVAL_gps == 2

\* A float as its sign bit and its magnitude.
Float(neg, mag) == [neg |-> neg, mag |-> mag]
Negate(x) == [neg |-> ~x.neg, mag |-> x.mag]

\* Units of the magnitude of a coordinate: 1/600000 degree, which is 1e-4
\* minute, so that degrees + minutes / 60 is exact.
UnitsPerDegree == 600000

\* GPSModule._convert_to_degrees(raw_value): float(raw_value[:2]) +
\* float(raw_value[2:]) / 60.0, and 0.0 when either float() raises.
convert_to_degrees(raw_value) ==
    LET degrees == ParseFloat(Prefix(raw_value, 2))
        minutes == ParseFloat(Suffix(raw_value, 2))
    IN  IF degrees = None \/ minutes = None
        THEN Float(FALSE, 0)
        ELSE Float(FALSE, Val(degrees) * (UnitsPerDegree \div 10000)
                            + Val(minutes))

\* GPSModule.read_location on the line read: (lat, lon) for a $GPGGA line
\* with more than five fields and non-empty latitude and longitude fields,
\* the sign flipped for "S" and "W"; None for everything else.
read_location(l) ==
    IF l.kind = "GPGGA" /\ l.enough /\ l.raw_lat # <<>> /\ l.raw_lon # <<>>
    THEN LET lat == convert_to_degrees(l.raw_lat)
             lon == convert_to_degrees(l.raw_lon)
         IN  Some([lat |-> IF l.lat_dir = "S" THEN Negate(lat) ELSE lat,
                   lon |-> IF l.lon_dir = "W" THEN Negate(lon) ELSE lon])
    ELSE None

\* format(x, ".6f") of a coordinate: 1e-6 degree is 6/10 of a unit, and
\* 10 * mag is never half way between two multiples of 6.
FormatDegrees6(x) == FormatFixed(x.neg, (x.mag * 10 + 3) \div 6, 6)

\* msg = f"[{count}] {timestamp} LAT:{lat:.6f}, LON:{lon:.6f}"; the
\* timestamp is one token.
GpsMessage(count, lat, lon) ==
    <<"[">> \o NatDigits(count) \o <<"]", " ", "timestamp", " ">>
        \o <<"L", "A", "T", ":">> \o FormatDegrees6(lat) \o <<",", " ">>
        \o <<"L", "O", "N", ":">> \o FormatDegrees6(lon)

\* SX126x.send(data) of gps.py: the data is written as it is; True, or False
\* when the write raised SerialException.
SX126x_send_gps(data, raises) ==
    IF raises
    THEN [written |-> None, ok |-> FALSE, propagated |-> FALSE]
    ELSE [written |-> Some(data), ok |-> TRUE, propagated |-> FALSE]

\* Lines gps.py reads; the serial port has a timeout, so also no line.
GpsLines == NmeaLines \cup {NoLine}

\* An iteration of main in which read_location returned None: the warning is
\* printed, nothing is sent, sleep(SEND_INTERVAL).  readline takes up to its
\* timeout of one second.
gps_no_location ==
    /\ g_pc = "loop"
    /\ g_now <= MaxTime
    /\ \E l \in GpsLines, wait \in {0, 1} :
         /\ l # NoLine => read_location(l) = None
         /\ g_line' = l
         /\ g_now' = Sleep(g_now + wait, SEND_INTERVAL_gps)
    /\ g_location' = None
    /\ UNCHANGED <<g_pc, g_gps_open, g_lora_open, g_count, g_written, g_ok,
                   g_last_tx>>
    /\ UNCHANGED not_g_vars

\* An iteration of main with a location: the message is formatted and
\* lora.send(msg + "\n") called, count += 1, sleep(SEND_INTERVAL).
gps_fix ==
    /\ g_pc = "loop"
    /\ g_now <= MaxTime
    /\ \E l \in NmeaLines, wait \in {0, 1}, raises \in BOOLEAN :
         /\ read_location(l) # None
         /\ g_line' = l
         /\ g_location' = read_location(l)
         /\ LET location == Val(read_location(l))
                text == GpsMessage(g_count, location.lat, location.lon)
                out == SX126x_send_gps(Append(text, "\n"), raises)
            IN  /\ g_written' = out.written
                /\ g_ok' = Some(out.ok)
                /\ g_pc' = IF out.propagated THEN "crashed" ELSE g_pc
         /\ g_last_tx' = Some(g_now + wait)
         /\ g_now' = Sleep(g_now + wait, SEND_INTERVAL_gps)
    /\ g_count' = g_count + 1
    /\ UNCHANGED <<g_gps_open, g_lora_open>>
    /\ UNCHANGED not_g_vars

\* KeyboardInterrupt in main: lora.close() and GPIO.cleanup(); the GPSModule
\* object has no close method and its serial handle is left as it is.
gps_keyboard_interrupt ==
    /\ g_pc = "loop"
    /\ g_pc' = "stopped"
    /\ g_lora_open' = FALSE
    /\ UNCHANGED <<g_gps_open, g_line, g_location, g_count, g_written, g_ok,
                   g_now, g_last_tx>>
    /\ UNCHANGED not_g_vars

NextGps ==
    \/ gps_no_location
    \/ gps_fix
    \/ gps_keyboard_interrupt

\* gps.py reading lines and relaying positions.
SpecGps == Init /\ [][NextGps]_vars

\* ---------------------------------------------------------------------------
\* The payload of gps1.py and its reading in rec.py
\* ---------------------------------------------------------------------------
\* A decimal number: sign bit, whole part and a fraction of fd digits.
Dec(neg, whole, frac, fd) ==
    [neg |-> neg, whole |-> whole, frac |-> frac, fd |-> fd]

\* Values of the locals lat and lon (eight decimals are given, one more than
\* is printed): zeros after the point, rounding up, a carry into the whole
\* part,
\* a negative value that rounds to zero, three whole digits, the ends of
\* the ranges.
Lats ==
    {Dec(FALSE, 12, 907164, 8), Dec(TRUE, 33, 85000006, 8),
     Dec(FALSE, 89, 99999996, 8), Dec(TRUE, 0, 4, 8), Dec(TRUE, 90, 0, 8)}
Lons ==
    {Dec(FALSE, 77, 59460000, 8), Dec(TRUE, 151, 20833337, 8),
     Dec(FALSE, 179, 99999999, 8), Dec(TRUE, 0, 1, 8), Dec(TRUE, 180, 0, 8)}

\* Values of speed_kmh (three decimals given): zero, rounding down and up,
\* the exact tie 0.125, a carry into a fourth whole digit.
Speeds ==
    {Dec(FALSE, 0, 0, 3), Dec(FALSE, 0, 4, 3), Dec(FALSE, 0, 125, 3),
     Dec(FALSE, 18, 46, 3), Dec(FALSE, 999, 996, 3)}

\* Values of datetime.utcnow().
Times ==
    {[year |-> 2024, month |-> 1, day |-> 5, hour |-> 3, minute |-> 4,
      second |-> 9],
     [year |-> 2026, month |-> 11, day |-> 25, hour |-> 23, minute |-> 59,
      second |-> 59]}

\* The magnitude of x rounded to nd decimals, times 10^nd.  Rounding is to
\* the nearest, an exact tie (a finite binary fraction such as 0.125) to
\* the even digit.
RoundScaled(x, nd) ==
    LET k == Pow10(x.fd - nd)
        q == x.frac \div k
        r == x.frac % k
        up == 2 * r > k \/ (2 * r = k /\ q % 2 = 1)
    IN  x.whole * Pow10(nd) + q + (IF up THEN 1 ELSE 0)

\* strftime("%Y-%m-%d %H:%M:%S")
Timestamp(t) ==
    PadDigits(t.year, 4) \o <<"-">> \o PadDigits(t.month, 2) \o <<"-">>
        \o PadDigits(t.day, 2) \o <<" ">> \o PadDigits(t.hour, 2) \o <<":">>
        \o PadDigits(t.minute, 2) \o <<":">> \o PadDigits(t.second, 2)

\* Variant of PayloadText with a comma after the latitude, as in the message
\* of gps.py.
PayloadText_CommaSeparated(t, lat, lon, spd) ==
    Timestamp(t)
        \o <<" ", "L", "A", "T", ":">>
        \o FormatFixed(lat.neg, RoundScaled(lat, 7), 7)
        \o <<",", " ", "L", "O", "N", ":">>
        \o FormatFixed(lon.neg, RoundScaled(lon, 7), 7)
        \o <<" ", "S", "P", "D", ":">>
        \o FormatFixed(spd.neg, RoundScaled(spd, 2), 2)
        \o <<"k", "m", "/", "h">>

\* payload = f"{timestamp} LAT:{lat:.7f} LON:{lon:.7f} SPD:{speed_kmh:.2f}km/h"
\* as its characters.
PayloadText(t, lat, lon, spd) ==
    Timestamp(t)
        \o <<" ", "L", "A", "T", ":">>
        \o FormatFixed(lat.neg, RoundScaled(lat, 7), 7)
        \o <<" ", "L", "O", "N", ":">>
        \o FormatFixed(lon.neg, RoundScaled(lon, 7), 7)
        \o <<" ", "S", "P", "D", ":">>
        \o FormatFixed(spd.neg, RoundScaled(spd, 2), 2)
        \o <<"k", "m", "/", "h">>

\* The character classes [\d\.\-], [\d\.] and \s of the pattern.
CoordClass == Digits \cup {".", "-"}
SpeedClass == Digits \cup {"."}
SpaceClass == {" ", "\t"}

\* Last index of the longest run of characters of cls that starts at i
\* (i - 1 when text[i] is not in cls).
RunEnd(text, i, cls) ==
    IF i > Len(text) THEN i - 1
    ELSE CHOOSE j \in (i - 1)..Len(text) :
            /\ \A k \in i..j : text[k] \in cls
            /\ j = Len(text) \/ text[j + 1] \notin cls

\* The literal lit stands at index i of text.
HasAt(text, i, lit) ==
    /\ i + Len(lit) - 1 <= Len(text)
    /\ SubSeq(text, i, i + Len(lit) - 1) = lit

\* The pattern LAT:([\d\.\-]+)\s+LON:([\d\.\-]+)\s+SPD:([\d\.]+)km/h tried
\* at index i.  None of the three repetitions can be followed by a character
\* of its own class, so each takes the longest run.
MatchAt(text, i) ==
    LET e1 == RunEnd(text, i + 4, CoordClass)
        s1 == RunEnd(text, e1 + 1, SpaceClass)
        e2 == RunEnd(text, s1 + 5, CoordClass)
        s2 == RunEnd(text, e2 + 1, SpaceClass)
        e3 == RunEnd(text, s2 + 5, SpeedClass)
    IN  [matched |->
            /\ HasAt(text, i, <<"L", "A", "T", ":">>)
            /\ e1 >= i + 4
            /\ s1 >= e1 + 1
            /\ HasAt(text, s1 + 1, <<"L", "O", "N", ":">>)
            /\ e2 >= s1 + 5
            /\ s2 >= e2 + 1
            /\ HasAt(text, s2 + 1, <<"S", "P", "D", ":">>)
            /\ e3 >= s2 + 5
            /\ HasAt(text, e3 + 1, <<"k", "m", "/", "h">>),
         g1 |-> <<i + 4, e1>>, g2 |-> <<s1 + 5, e2>>, g3 |-> <<s2 + 5, e3>>]

\* pattern.search(line): the groups of the leftmost match, None without one.
PatternSearch(text) ==
    IF \E i \in 1..Len(text) : MatchAt(text, i).matched
    THEN LET i == CHOOSE i \in 1..Len(text) :
                    /\ MatchAt(text, i).matched
                    /\ \A j \in 1..(i - 1) : ~MatchAt(text, j).matched
             m == MatchAt(text, i)
         IN  Some([g1 |-> SubSeq(text, m.g1[1], m.g1[2]),
                   g2 |-> SubSeq(text, m.g2[1], m.g2[2]),
                   g3 |-> SubSeq(text, m.g3[1], m.g3[2])])
    ELSE None

\* float(text) of a captured group in units of 10^-nd, with an optional
\* leading "-"; None stands for ValueError.
ParseSigned(text, nd) ==
    LET neg == Len(text) > 0 /\ text[1] = "-"
        body == IF neg THEN Tail(text) ELSE text
    IN  IF ParseDecimal(body, nd) = None THEN None
        ELSE Some(Float(neg, Val(ParseDecimal(body, nd))))

\* Prefixes a received line may put before the payload.
LinePrefixes == {<<>>, <<"R", "X", ":", " ">>}

\* main formats the payload from its locals and hands it to send_lora.
format_payload ==
    /\ p_pc \in {"idle", "received"}
    /\ \E t \in Times, lat \in Lats, lon \in Lons, spd \in Speeds :
         /\ p_time' = Some(t)
         /\ p_lat' = Some(lat) /\ p_lon' = Some(lon) /\ p_spd' = Some(spd)
         /\ p_text' = Some(PayloadText(t, lat, lon, spd))
    /\ p_pc' = "sent"
    /\ p_rx' = None
    /\ UNCHANGED not_p_vars

\* receive_data_loop of rec.py on the line that carries the payload: search
\* the pattern and convert the three groups; a ValueError of float() is
\* caught and the map is not updated.
rec_receive ==
    /\ p_pc = "sent"
    /\ \E prefix \in LinePrefixes :
         LET found == PatternSearch(prefix \o Val(p_text))
         IN  p_rx' =
               IF found = None
               THEN [matched |-> FALSE]
               ELSE LET lat == ParseSigned(Val(found).g1, 7)
                        lon == ParseSigned(Val(found).g2, 7)
                        spd == ParseSigned(Val(found).g3, 2)
                    IN  IF lat = None \/ lon = None \/ spd = None
                        THEN [matched |-> TRUE, error |-> TRUE]
                        ELSE [matched |-> TRUE, error |-> FALSE,
                              lat |-> Val(lat), lon |-> Val(lon),
                              spd |-> Val(spd)]
    /\ p_pc' = "received"
    /\ UNCHANGED <<p_time, p_lat, p_lon, p_spd, p_text>>
    /\ UNCHANGED not_p_vars

NextPayload ==
    \/ format_payload
    \/ rec_receive

\* Payloads formatted by gps1.py and read by rec.py.
SpecPayload == Init /\ [][NextPayload]_vars

\* ---------------------------------------------------------------------------
\* sender.py
\* ---------------------------------------------------------------------------
\* data.endswith("\n")
EndsWithNewline(data) == Len(data) > 0 /\ data[Len(data)] = "\n"

\* Variant of WithNewline that leaves the data as it is.
WithNewline_Never(data) == data

\* "if not data.endswith('\n'): data += '\n'"
WithNewline(data) ==
    IF EndsWithNewline(data) THEN data ELSE Append(data, "\n")

\* msg = f"[{count}] {timestamp} - Hello from Raspberry Pi"; the timestamp
\* and the greeting are one token each.
SenderMessage(count) ==
    <<"[">> \o NatDigits(count)
        \o <<"]", " ", "timestamp", " ", "-", " ", "Hello from Raspberry Pi">>

\* main calls lora.send(msg): send makes the data end with a newline and
\* enters self.ser.write.
send_begin ==
    /\ s_main = "idle"
    /\ s_sends < MaxPackets
    /\ s_data' = Some(WithNewline(SenderMessage(s_count)))
    /\ s_main' = "writing"
    /\ UNCHANGED <<s_rx, s_open, s_count, s_written, s_result, packets_sent,
                   packets_received, errors, s_main_tmp, s_rx_tmp, s_sends,
                   s_receives, s_failures>>
    /\ UNCHANGED not_s_vars

\* self.ser.write completed: packets_sent += 1, the number of bytes written
\* is returned (here the number of elements of the text); main prints,
\* count += 1, sleeps.
send_write_ok ==
    /\ s_main = "writing"
    /\ s_written' = s_data
    /\ packets_sent' = packets_sent + 1
    /\ s_result' = Some(Len(Val(s_data)))
    /\ s_data' = None
    /\ s_count' = s_count + 1
    /\ s_sends' = s_sends + 1
    /\ s_main' = "idle"
    /\ UNCHANGED <<s_rx, s_open, packets_received, errors, s_main_tmp,
                   s_rx_tmp, s_receives, s_failures>>
    /\ UNCHANGED not_s_vars

\* self.ser.write raised SerialException: the handler loads self.errors for
\* "self.errors += 1".
send_write_fail ==
    /\ s_main = "writing"
    /\ s_main_tmp' = Some(errors)
    /\ s_data' = None
    /\ s_failures' = s_failures + 1
    /\ s_main' = "err_loaded"
    /\ UNCHANGED <<s_rx, s_open, s_count, s_written, s_result, packets_sent,
                   packets_received, errors, s_rx_tmp, s_sends, s_receives>>
    /\ UNCHANGED not_s_vars

\* the handler stores self.errors and returns 0; main prints, count += 1,
\* sleeps.
send_error_store ==
    /\ s_main = "err_loaded"
    /\ errors' = Val(s_main_tmp) + 1
    /\ s_main_tmp' = None
    /\ s_result' = Some(0)
    /\ s_count' = s_count + 1
    /\ s_sends' = s_sends + 1
    /\ s_main' = "idle"
    /\ UNCHANGED <<s_rx, s_open, s_data, s_written, packets_sent,
                   packets_received, s_rx_tmp, s_receives, s_failures>>
    /\ UNCHANGED not_s_vars

\* KeyboardInterrupt in main: lora.close() closes the serial handle.
sender_keyboard_interrupt ==
    /\ s_main = "idle"
    /\ s_open' = FALSE
    /\ s_main' = "closed"
    /\ UNCHANGED <<s_rx, s_count, s_data, s_written, s_result, packets_sent,
                   packets_received, errors, s_main_tmp, s_rx_tmp, s_sends,
                   s_receives, s_failures>>
    /\ UNCHANGED not_s_vars

\* GPIO.cleanup() and the return of main: the process ends and the daemon
\* thread with it.
sender_exit ==
    /\ s_main = "closed"
    /\ s_main' = "stopped"
    /\ UNCHANGED <<s_rx, s_open, s_count, s_data, s_written, s_result,
                   packets_sent, packets_received, errors, s_main_tmp,
                   s_rx_tmp, s_sends, s_receives, s_failures>>
    /\ UNCHANGED not_s_vars

\* receiver thread, receive(): "self.ser.in_waiting > 0" found data waiting
\* on the open port and readline is entered.
receive_check ==
    /\ s_main # "stopped"
    /\ s_rx = "idle"
    /\ s_receives < MaxPackets
    /\ s_open
    /\ s_rx' = "reading"
    /\ s_receives' = s_receives + 1
    /\ UNCHANGED <<s_main, s_open, s_count, s_data, s_written, s_result,
                   packets_sent, packets_received, errors, s_main_tmp,
                   s_rx_tmp, s_sends, s_failures>>
    /\ UNCHANGED not_s_vars

\* receiver thread, receive() on the port main has closed: in_waiting fails.
\* What is raised depends on the serial library: a SerialException, which
\* receive catches (it loads self.errors), or another exception, which ends
\* the thread.
receive_check_closed ==
    /\ s_main # "stopped"
    /\ s_rx = "idle"
    /\ s_receives < MaxPackets
    /\ ~s_open
    /\ s_receives' = s_receives + 1
    /\ \/ /\ s_rx' = "err_loaded"
          /\ s_rx_tmp' = Some(errors)
          /\ s_failures' = s_failures + 1
       \/ /\ s_rx' = "dead"
          /\ UNCHANGED <<s_rx_tmp, s_failures>>
    /\ UNCHANGED <<s_main, s_open, s_count, s_data, s_written, s_result,
                   packets_sent, packets_received, errors, s_main_tmp,
                   s_sends>>
    /\ UNCHANGED not_s_vars

\* receiver thread: readline returned; a line that is not empty after strip
\* counts as a packet (packets_received += 1, only this thread writes it).
receive_read ==
    /\ s_main # "stopped"
    /\ s_rx = "reading"
    /\ s_open
    /\ \E empty \in BOOLEAN :
         packets_received' = IF empty THEN packets_received
                             ELSE packets_received + 1
    /\ s_rx' = "idle"
    /\ UNCHANGED <<s_main, s_open, s_count, s_data, s_written, s_result,
                   packets_sent, errors, s_main_tmp, s_rx_tmp, s_sends,
                   s_receives, s_failures>>
    /\ UNCHANGED not_s_vars

\* receiver thread: readline raised SerialException (the port failed or main
\* closed it meanwhile): the handler loads self.errors.
receive_read_fail ==
    /\ s_main # "stopped"
    /\ s_rx = "reading"
    /\ s_rx_tmp' = Some(errors)
    /\ s_failures' = s_failures + 1
    /\ s_rx' = "err_loaded"
    /\ UNCHANGED <<s_main, s_open, s_count, s_data, s_written, s_result,
                   packets_sent, packets_received, errors, s_main_tmp,
                   s_sends, s_receives>>
    /\ UNCHANGED not_s_vars

\* receiver thread: the handler stores self.errors and receive returns None.
receive_error_store ==
    /\ s_main # "stopped"
    /\ s_rx = "err_loaded"
    /\ errors' = Val(s_rx_tmp) + 1
    /\ s_rx_tmp' = None
    /\ s_rx' = "idle"
    /\ UNCHANGED <<s_main, s_open, s_count, s_data, s_written, s_result,
                   packets_sent, packets_received, s_main_tmp, s_sends,
                   s_receives, s_failures>>
    /\ UNCHANGED not_s_vars

NextSender ==
    \/ send_begin
    \/ send_write_ok
    \/ send_write_fail
    \/ send_error_store
    \/ sender_keyboard_interrupt
    \/ sender_exit
    \/ receive_check
    \/ receive_check_closed
    \/ receive_read
    \/ receive_read_fail
    \/ receive_error_store

\* sender.py: the main loop and the receiver thread interleaved.
SpecSender == Init /\ [][NextSender]_vars

\* ---------------------------------------------------------------------------
\* gps1.py: framing of the GPS byte stream into lines
\* ---------------------------------------------------------------------------
\* Sentences as the GNSS receiver puts them on the line, delimiter included.
GgaText ==
    <<"$", "G", "P", "G", "G", "A", ",", "1", "2", "5", "8", ".", "2", "9",
      ",", "N", "\r", "\n">>
RmcText ==
    <<"$", "G", "N", "R", "M", "C", ",", "A", ",", "3", "3", "5", "1", ",",
      "S", "\r", "\n">>
GsvText == <<"$", "G", "P", "G", "S", "V", ",", "3", "\r", "\n">>

SentenceTexts == {GgaText, RmcText, GsvText}

\* The prefixes main tests with line.startswith.
UsefulHeaders ==
    {<<"$", "G", "P", "G", "G", "A">>, <<"$", "G", "P", "R", "M", "C">>,
     <<"$", "G", "N", "G", "G", "A">>, <<"$", "G", "N", "R", "M", "C">>}

Whitespace == {" ", "\t", "\r", "\n"}

AsciiChars ==
    Digits \cup Whitespace \cup
    {"$", ",", ".", "A", "C", "G", "M", "N", "P", "R", "S", "V"}

\* bytes.decode('ascii', errors='ignore'): bytes outside ASCII are left out.
DecodeAscii(bytes) ==
    LET IsAscii(c) == c \in AsciiChars IN SelectSeq(bytes, IsAscii)

\* str.strip(): leading and trailing whitespace removed.
RECURSIVE StripLeft(_)
StripLeft(text) ==
    IF text # <<>> /\ Head(text) \in Whitespace
    THEN StripLeft(Tail(text)) ELSE text

RECURSIVE StripRight(_)
StripRight(text) ==
    IF text # <<>> /\ text[Len(text)] \in Whitespace
    THEN StripRight(SubSeq(text, 1, Len(text) - 1)) ELSE text

Strip(text) == StripRight(StripLeft(text))

HasNewline(bytes) == \E i \in 1..Len(bytes) : bytes[i] = "\n"

NewlineAt(bytes) ==
    CHOOSE i \in 1..Len(bytes) :
        bytes[i] = "\n" /\ \A j \in 1..(i - 1) : bytes[j] # "\n"

\* gps.readline() of a port opened with timeout=1: the bytes up to and
\* including the first "\n"; if the buffer holds no "\n" and none arrives
\* within the timeout, every byte read so far.
readline(bytes) ==
    IF HasNewline(bytes)
    THEN [data |-> Prefix(bytes, NewlineAt(bytes)),
          rest |-> Suffix(bytes, NewlineAt(bytes)), timed_out |-> FALSE]
    ELSE [data |-> bytes, rest |-> <<>>, timed_out |-> TRUE]

IsUseful(text) == \E h \in UsefulHeaders : Prefix(text, Len(h)) = h

\* The sentences of the GNSS receiver as complete lines (delimiter stripped).
SentenceLines == {Strip(s) : s \in SentenceTexts}

\* A text that is neither empty nor a complete sentence.
IsFragment(text) == text # <<>> /\ text \notin SentenceLines

\* Where a sentence may be cut in two on its way: inside the header, right
\* after the header, inside a field, or not at all.
Pieces(s) == {k \in {3, 6, 8, Len(s)} : k <= Len(s)}

\* The GNSS receiver puts the next bytes on the line: the first part of a
\* new sentence, or the rest of the sentence in transmission.
gnss_bytes ==
    /\ \E s \in (IF fr_rest = <<>> THEN SentenceTexts ELSE {fr_rest}) :
       \E k \in (IF fr_rest = <<>> THEN Pieces(s) ELSE {Len(s)}) :
          /\ fr_rest = <<>> => fr_emitted < MaxLines
          /\ fr_buf' = fr_buf \o Prefix(s, k)
          /\ fr_rest' = Suffix(s, k)
          /\ fr_emitted' = IF fr_rest = <<>> THEN fr_emitted + 1
                           ELSE fr_emitted
    /\ UNCHANGED <<fr_pc, fr_line, fr_parsed, fr_whole, fr_dropped, fr_cut>>
    /\ UNCHANGED not_fr_vars

\* init_gps: the port is opened and reset_input_buffer() throws away what
\* has arrived so far.
frame_init_gps ==
    /\ fr_pc = "init"
    /\ fr_pc' = "loop"
    /\ fr_buf' = <<>>
    /\ fr_dropped' = (fr_dropped \/ IsFragment(Strip(DecodeAscii(fr_buf))))
    /\ fr_cut' = (fr_cut \/ fr_buf # <<>>)
    /\ UNCHANGED <<fr_rest, fr_emitted, fr_line, fr_parsed, fr_whole>>
    /\ UNCHANGED not_fr_vars

\* One iteration of main as far as the line is concerned: readline, decode,
\* strip; an empty line is skipped, a line with one of the four headers goes
\* to pynmea2.parse, any other line is passed over.
frame_read ==
    /\ fr_pc = "loop"
    /\ LET r == readline(fr_buf)
           text == Strip(DecodeAscii(r.data))
           parsed == text # <<>> /\ IsUseful(text)
       IN  /\ fr_buf' = r.rest
           /\ fr_line' = text
           /\ fr_parsed' = IF parsed THEN fr_parsed + 1 ELSE fr_parsed
           /\ fr_whole' = IF parsed /\ text \in SentenceLines
                          THEN fr_whole + 1 ELSE fr_whole
           /\ fr_dropped' = (fr_dropped \/ (~parsed /\ IsFragment(text)))
           /\ fr_cut' = (fr_cut \/ (r.timed_out /\ r.data # <<>>))
    /\ UNCHANGED <<fr_pc, fr_rest, fr_emitted>>
    /\ UNCHANGED not_fr_vars

\* readline raises (the handler sets line = ""): the bytes it had taken from
\* the buffer before the exception, at most up to the first "\n", are gone.
frame_read_error ==
    /\ fr_pc = "loop"
    /\ \E k \in 0..Len(readline(fr_buf).data) :
          /\ fr_buf' = Suffix(fr_buf, k)
          /\ fr_dropped' = (fr_dropped \/
                            IsFragment(Strip(DecodeAscii(Prefix(fr_buf, k)))))
          /\ fr_cut' = (fr_cut \/ k > 0)
    /\ fr_line' = <<>>
    /\ UNCHANGED <<fr_pc, fr_rest, fr_emitted, fr_parsed, fr_whole>>
    /\ UNCHANGED not_fr_vars

NextFramer ==
    \/ gnss_bytes
    \/ frame_init_gps
    \/ frame_read
    \/ frame_read_error

\* gps1.py reading lines from a GNSS receiver whose bytes arrive in pieces.
SpecFramer == Init /\ [][NextFramer]_vars

\* ---------------------------------------------------------------------------
\* test1.py: frames addressed by "dest_addr,freq,message"
\* ---------------------------------------------------------------------------
\* node = sx126x(serial_num="COM5", addr=0, power=22); offset_freq is the
\* class attribute.
node_addr == 0
node_offset_freq == 18

\* str.split(","): the fields between the commas, at least one.
RECURSIVE Split(_)
Split(text) ==
    IF \E i \in 1..Len(text) : text[i] = ","
    THEN LET c == CHOOSE i \in 1..Len(text) :
                     text[i] = "," /\ \A j \in 1..(i - 1) : text[j] # ","
         IN  <<Prefix(text, c - 1)>> \o Split(Suffix(text, c))
    ELSE <<text>>

\* int(text): surrounding whitespace and one sign are accepted, then only
\* digits, at least one; anything else raises ValueError.
IntOf(text) ==
    LET t == Strip(text)
        signed == t # <<>> /\ Head(t) \in {"+", "-"}
        ds == IF signed THEN Tail(t) ELSE t
        numeric == ds # <<>> /\ \A i \in 1..Len(ds) : ds[i] \in Digits
    IN  IF ~numeric THEN [raised |-> TRUE, value |-> 0]
        ELSE [raised |-> FALSE,
              value |-> IF signed /\ Head(t) = "-" THEN 0 - NatOf(ds)
                        ELSE NatOf(ds)]

\* "850 if freq > 850 else 410"
BandStart(freq) == IF freq > 850 THEN 850 ELSE 410

\* bytes([...]): raises ValueError unless every element is in range(0, 256).
BytesOf(ints) ==
    [raised |-> \E i \in 1..Len(ints) : ints[i] \notin 0..255,
     value |-> ints]

\* The body of the inner try for one input: the frame handed to node.send,
\* or the exception raised before.  x >> 8 is the floor of x / 256 and
\* x & 0xFF the remainder in 0..255, also for a negative x.
BuildFrame(user_input) ==
    LET parts == Split(user_input)
        dest_addr == IntOf(parts[1])
        freq == IntOf(parts[2])
        offset == freq.value - BandStart(freq.value)
        header == BytesOf(<<dest_addr.value \div 256, dest_addr.value % 256,
                            offset, node_addr \div 256, node_addr % 256,
                            node_offset_freq>>)
    IN  IF dest_addr.raised THEN [raised |-> TRUE]
        ELSE IF Len(parts) < 2 THEN [raised |-> TRUE]
        ELSE IF freq.raised THEN [raised |-> TRUE]
        ELSE IF Len(parts) < 3 THEN [raised |-> TRUE]
        ELSE IF header.raised THEN [raised |-> TRUE]
        ELSE [raised |-> FALSE, header |-> header.value, body |-> parts[3]]

\* What the user may type: the three fields joined by commas, fewer fields,
\* or nothing.
DestTexts ==
    {<<"0">>, <<"2", "5", "5">>, <<"2", "5", "6">>,
     <<"6", "5", "5", "3", "5">>, <<"6", "5", "5", "3", "6">>,
     <<"-", "1">>, <<"x">>}

FreqTexts ==
    {<<"4", "0", "9">>, <<"4", "1", "0">>, <<"4", "9", "3">>,
     <<"4", "9", "4">>, <<"6", "6", "5">>, <<"6", "6", "6">>,
     <<"8", "4", "9">>, <<"8", "5", "0">>, <<"8", "5", "1">>,
     <<"8", "6", "8">>, <<"9", "3", "0">>, <<"9", "3", "1">>,
     <<"1", "1", "0", "5">>, <<"1", "1", "0", "6">>, <<"M", "H", "z">>}

MessageTexts == {<<"h", "i">>, <<>>, <<"a", ",", "b">>}

UserInputs ==
    {d \o <<",">> \o f \o <<",">> \o m :
        d \in DestTexts, f \in FreqTexts, m \in MessageTexts}
    \cup {d \o <<",">> \o f : d \in DestTexts, f \in {<<"8", "6", "8">>}}
    \cup {<<"1">>, <<"h", "i">>}

BlankInputs == {<<>>, <<" ">>}

\* An empty or blank input: continue.
test1_blank ==
    /\ t_pc = "prompt"
    /\ t_inputs < MaxPackets
    /\ \E text \in BlankInputs :
         /\ Strip(text) = <<>>
         /\ t_input' = text
    /\ t_frame' = None
    /\ t_outcome' = "blank"
    /\ t_inputs' = t_inputs + 1
    /\ UNCHANGED <<t_pc, t_open>>
    /\ UNCHANGED not_t_vars

\* An input for which the frame is built: node.send writes it; "Message
\* sent!" if the write returned, "Error sending message" if it raised.
test1_send ==
    /\ t_pc = "prompt"
    /\ t_inputs < MaxPackets
    /\ \E text \in UserInputs, write_ok \in BOOLEAN :
         LET f == BuildFrame(text)
         IN  /\ Strip(text) # <<>>
             /\ ~f.raised
             /\ t_input' = text
             /\ t_frame' = Some([header |-> f.header, body |-> f.body])
             /\ t_outcome' = IF write_ok THEN "sent" ELSE "error"
    /\ t_inputs' = t_inputs + 1
    /\ UNCHANGED <<t_pc, t_open>>
    /\ UNCHANGED not_t_vars

\* An input for which int(), parts[...] or bytes() raises: the exception is
\* caught, "Error sending message" is printed, nothing is written.
test1_error ==
    /\ t_pc = "prompt"
    /\ t_inputs < MaxPackets
    /\ \E text \in UserInputs :
         /\ Strip(text) # <<>>
         /\ BuildFrame(text).raised
         /\ t_input' = text
    /\ t_frame' = None
    /\ t_outcome' = "error"
    /\ t_inputs' = t_inputs + 1
    /\ UNCHANGED <<t_pc, t_open>>
    /\ UNCHANGED not_t_vars

\* KeyboardInterrupt at the prompt: node.free_serial() closes the port.
test1_keyboard_interrupt ==
    /\ t_pc = "prompt"
    /\ t_pc' = "stopped"
    /\ t_open' = FALSE
    /\ UNCHANGED <<t_input, t_frame, t_outcome, t_inputs>>
    /\ UNCHANGED not_t_vars

NextTest1 ==
    \/ test1_blank
    \/ test1_send
    \/ test1_error
    \/ test1_keyboard_interrupt

\* test1.py at its prompt.
SpecTest1 == Init /\ [][NextTest1]_vars

\* The sender with the start-up and transport behaviour in full and a small
\* set of sentences.
Next ==
    \/ init_gps_ok
    \/ init_gps_fail
    \/ select_backend
    \/ read_empty
    \/ read_other
    \/ read_parse_error
    \/ read_no_position(FewMessages)
    \/ read_fix(FewMessages, SxApis)
    \/ keyboard_interrupt

Spec == Init /\ [][Next]_vars

\* The main loop with the full set of sentences, entered with the SPI driver
\* whose object has a send method.
InitMotion ==
    /\ InitOthers
    /\ pc = "loop"
    /\ exit_code = None
    /\ HAS_SX126X = TRUE
    /\ gps_open = TRUE
    /\ at_open = FALSE
    /\ driver_res = <<"sx", "sx_obj">>
    /\ lora_iface = "sx"
    /\ lora_handle = "sx_obj"
    /\ acquisitions = 1
    /\ last_lat = InitialMotion.lat /\ last_lon = InitialMotion.lon
    /\ last_time = InitialMotion.time
    /\ last_fix_valid = InitialMotion.valid
    /\ line = "" /\ msg = NoMsg
    /\ dist_m = None /\ dt = None /\ speed_kmh = 0
    /\ payload = None /\ ok = None /\ resp = None
    /\ tx_count = 0 /\ fail_since = None
    /\ now = 0

NextMotion ==
    \/ read_empty
    \/ read_other
    \/ read_parse_error
    \/ read_no_position(Messages)
    \/ read_fix(Messages, {"send"})
    \/ keyboard_interrupt

SpecMotion == InitMotion /\ [][NextMotion]_vars

\* ---------------------------------------------------------------------------
\* Properties
\* ---------------------------------------------------------------------------
\* The state right after an iteration that parsed a sentence with a position:
\* msg, payload and the locals of the speed calculation belong together.
FixState == line = "sentence" /\ HasPosition(msg)

\* Stall threshold of the watchdog the specification describes, in seconds
\* beyond which a run of failed sends counts as a stall.
StallThreshold == 1

\* Sends have been failing for longer than the stall threshold.
Stalled ==
    /\ fail_since # None
    /\ now - Val(fail_since) > StallThreshold

\* C1: the backend is chosen in a fixed order.  When init_lora_driver returned
\* a handle the SPI driver is the backend and the AT port is not opened; the
\* SPI driver is the backend only with its dependency present; the AT UART
\* is the backend only when the driver yielded nothing; the loop is entered
\* and payloads are sent only with a backend; with no backend the process
\* has exited with status 1.
C1_BackendSelectionOrder ==
    /\ driver_res = <<"sx", "sx_obj">>
          => (lora_iface = "sx" /\ lora_handle = "sx_obj" /\ ~at_open)
    /\ lora_iface = "sx" => (HAS_SX126X /\ driver_res = <<"sx", "sx_obj">>)
    /\ lora_iface = "at" => (driver_res = None /\ lora_handle = "at_serial")
    /\ pc \in {"loop", "stopped"} => lora_iface # "None"
    /\ tx_count > 0 => lora_iface # "None"
    /\ (acquisitions > 0 /\ lora_iface = "None")
          => (pc = "exited" /\ exit_code = Some(1) /\ tx_count = 0)

\* The driver was present but failed to initialise, the AT fallback was
\* taken and a payload has been sent over it.
C1_Witness ==
    /\ pc = "loop" /\ HAS_SX126X /\ driver_res = None
    /\ lora_iface = "at" /\ tx_count > 0

C9_AtSuccessNeedsReply ==
    (lora_iface = "at" /\ ok = Some(TRUE)) => resp = Some("OK")

\* C9, second part as stated, for LoRaCommunicator.send_message: the call
\* returns True only if an affirmative reply to its own AT+SEND was read;
\* the reply of an earlier command does not count.
C9_DeepSuccessNeedsOwnReply ==
    (sm_pc = "idle" /\ result = Some(TRUE))
        => \E i \in 1..Len(response) :
              response[i] = Reply("AT+SEND", "OK")

\* C10: a failed send does not halt the sender.  A send that reports failure
\* leaves the loop running with no exit status; exit status 1 occurs only at
\* start-up, before any send, with the GPS port or every backend missing;
\* and after a failed send the next sentence with a position is sent too.
C10_SendFailureDoesNotHalt ==
    [][/\ (tx_count' # tx_count /\ ok' = Some(FALSE))
            => (pc' = "loop" /\ exit_code' = None)
       /\ exit_code' = Some(1)
            => (tx_count' = 0 /\ (~gps_open' \/ lora_iface' = "None"))
       /\ (pc = "loop" /\ ok = Some(FALSE) /\ pc' = "loop"
             /\ line' = "sentence" /\ HasPosition(msg'))
            => tx_count' = tx_count + 1]_vars

\* Two sends in a row have failed and the loop is still running.
C10_Witness ==
    /\ pc = "loop" /\ ok = Some(FALSE) /\ tx_count >= 2
    /\ fail_since # None /\ now - Val(fail_since) >= 2 * SEND_INTERVAL

\* Speed s (0.01 km/h) is d / e * 3.6 for a distance d in micrometres and
\* e seconds, to the rounding of the two printed decimals.
IsDerivedSpeed(s, d, e) ==
    LET exact == (d \div 1000) * 36
    IN  Abs(s * e * 100 - exact) <= e * 50

\* C3 as stated: a fix closer than the jitter threshold to the stored one is
\* reported at the stored coordinates, the stored position does not move and
\* the speed is 0.
C3_JitterSnapsPosition ==
    [][(tx_count' = tx_count + 1 /\ dist_m' # None
          /\ Val(dist_m') < JitterThreshold)
        => /\ last_lat' = last_lat /\ last_lon' = last_lon
           /\ Val(payload').lat = Val(last_lat)
           /\ Val(payload').lon = Val(last_lon)
           /\ speed_kmh' = 0 /\ Val(payload').spd = 0]_vars

\* C3 amended: for a fix at most the jitter threshold (0.5 m) away from the
\* stored one the reported speed is 0, but the position is not snapped: the
\* payload carries the new fix's own coordinates and they become the stored
\* last position.
C3_JitterSpeedZero ==
    [][(tx_count' = tx_count + 1 /\ dist_m' # None
          /\ Val(dist_m') <= JitterThreshold)
        => /\ speed_kmh' = 0 /\ Val(payload').spd = 0
           /\ Val(payload').lat = msg'.latitude
           /\ Val(payload').lon = msg'.longitude
           /\ last_lat' = Some(msg'.latitude)
           /\ last_lon' = Some(msg'.longitude)]_vars

\* A fix 0.33 m from the stored one, one or more seconds later, was
\* reported with speed 0 at its own coordinates.
C3_Witness ==
    /\ FixState /\ dist_m # None /\ dt # None
    /\ Val(dist_m) > 0 /\ Val(dist_m) <= JitterThreshold /\ Val(dt) > 0
    /\ speed_kmh = 0 /\ last_lat = Some(msg.latitude)

\* C4 as stated: a sentence with a ground speed is reported with that speed,
\* knots * 1.852 km/h.
C4_GroundSpeedReported ==
    (FixState /\ msg.sog # None)
        => Val(payload).spd = (Val(msg.sog) * 1852) \div 10

\* C4 amended: the ground speed of the sentence is never used.  Also for a
\* sentence that carries one the payload reports the displacement-derived
\* speed: distance / elapsed * 3.6 when a valid fix is stored, elapsed > 0
\* and distance > 0.5 m, and 0 otherwise.
C4_SpeedAlwaysDerived ==
    (FixState /\ msg.sog # None)
        => /\ Val(payload).spd = speed_kmh
           /\ IF dist_m # None /\ Val(dt) > 0 /\ Val(dist_m) > JitterThreshold
              THEN IsDerivedSpeed(Val(payload).spd, Val(dist_m), Val(dt))
              ELSE Val(payload).spd = 0

\* An RMC sentence with 10 knots (18.52 km/h) was reported with a derived
\* speed that is neither 0 nor 18.52 km/h.
C4_Witness ==
    /\ FixState /\ msg.kind = "RMC" /\ msg.sog = Some(10)
    /\ Val(payload).spd > 0 /\ Val(payload).spd # 1852

\* C5 as stated: a sentence that is not valid (GGA quality 0, RMC status
\* not 'A') neither updates the stored position and time nor is sent.
C5_OnlyValidFixesRelayed ==
    [][(pc' = "loop" /\ line' = "sentence" /\ ~msg'.valid)
        => UNCHANGED <<last_lat, last_lon, last_time, payload, tx_count>>]_vars

\* C6: after the first sentence with a position the fix and its time are
\* stored and the payload carries speed 0.
C6_FirstFixSpeedZero ==
    (tx_count = 1 /\ FixState)
        => /\ speed_kmh = 0 /\ Val(payload).spd = 0
           /\ Val(payload).lat = msg.latitude
           /\ Val(payload).lon = msg.longitude
           /\ last_lat = Some(msg.latitude)
           /\ last_lon = Some(msg.longitude)
           /\ last_time # None
           /\ (msg.timestamp # None => last_time = msg.timestamp)
           /\ last_fix_valid

\* The first payload was sent for the northernmost position, after the clock
\* had already advanced.
C6_Witness ==
    /\ tx_count = 1 /\ FixState /\ msg.latitude = 129725000
    /\ Val(payload).spd = 0 /\ now > SEND_INTERVAL

\* C7 as stated: with a valid fix stored and no ground speed in the sentence
\* the speed is distance / elapsed * 3.6; with elapsed <= 0 it is the
\* previously reported speed; it is never negative.
C7_SpeedHeldWhenNoTimeElapsed ==
    [][(tx_count' = tx_count + 1 /\ dt' # None /\ msg'.sog = None)
        => /\ speed_kmh' >= 0
           /\ IF Val(dt') > 0
              THEN Val(dist_m') > JitterThreshold
                     => IsDerivedSpeed(speed_kmh', Val(dist_m'), Val(dt'))
              ELSE speed_kmh' = Val(payload).spd]_vars

\* C7 amended: with a valid fix stored the speed is distance / elapsed * 3.6
\* when elapsed > 0 and distance > 0.5 m; otherwise, in particular with
\* elapsed <= 0, it is 0 and not the previously reported speed; it is never
\* negative.
C7_DerivedSpeed ==
    [][(tx_count' = tx_count + 1 /\ dt' # None)
        => /\ speed_kmh' >= 0
           /\ Val(payload').spd = speed_kmh'
           /\ IF Val(dt') > 0 /\ Val(dist_m') > JitterThreshold
              THEN IsDerivedSpeed(speed_kmh', Val(dist_m'), Val(dt'))
              ELSE speed_kmh' = 0]_vars

\* A fix 100 m from the stored one with a timestamp before the stored time:
\* speed 0.
C7_Witness ==
    /\ FixState /\ dt # None /\ Val(dt) < 0
    /\ Val(dist_m) > JitterThreshold /\ speed_kmh = 0 /\ tx_count >= 3

\* A fix 100 m from the stored one, one second later: a non-zero speed.
C7_WitnessMoving ==
    /\ FixState /\ dt = Some(1) /\ Val(dist_m) > JitterThreshold
    /\ speed_kmh > 0

\* C8: the same fix fed again with zero elapsed time is reported with speed
\* 0 and leaves the stored position as it was.
C8_SameFixTwice ==
    [][(tx_count' = tx_count + 1 /\ payload # None
          /\ last_lat = Some(msg'.latitude) /\ last_lon = Some(msg'.longitude)
          /\ last_time' = last_time)
        => /\ speed_kmh' = 0 /\ Val(payload').spd = 0
           /\ last_lat' = last_lat /\ last_lon' = last_lon
           /\ Val(payload').lat = Val(payload).lat
           /\ Val(payload').lon = Val(payload).lon]_vars

\* The third payload repeats the stored fix at the stored time.
C8_Witness ==
    /\ FixState /\ dist_m = Some(0) /\ dt = Some(0)
    /\ speed_kmh = 0 /\ tx_count = 3

\* The step read a line from the GNSS receiver (ant.py).
AntReadsLine == ant_buf # <<>> /\ ant_buf' = Tail(ant_buf)

\* A sentence of a supported type whose coordinates cannot be used: too few
\* fields, an empty coordinate or hemisphere field, or a coordinate that is
\* not a number.
Malformed(l) ==
    /\ l.kind \in {"GPGGA", "GPRMC"}
    /\ \/ ~l.enough
       \/ l.raw_lat = <<>> \/ l.raw_lon = <<>>
       \/ l.lat_dir = "" \/ l.lon_dir = ""
       \/ ParseFloat(l.raw_lat) = None \/ ParseFloat(l.raw_lon) = None

\* C11 as stated: a sentence with a malformed, missing or non-numeric
\* mandatory field is discarded for that sentence only: reading it sends no
\* payload, leaves what was last sent as it is and leaves the main loop
\* running.
C11_MalformedSentenceDiscarded ==
    [][(AntReadsLine /\ Malformed(ant_line'))
        => /\ ant_tx' = ant_tx
           /\ ant_sent' = ant_sent
           /\ ant_pc' = "loop"]_vars

\* C11, for gps.py: a sentence with a coordinate field that is not a number
\* yields no location and hence no payload.
C11_GpsMalformedFieldNotSent ==
    (g_line.kind # "none" /\ Malformed(g_line)) => g_location = None

\* A coordinate field of the form D..DMM.M..M with a hemisphere letter.
IsCoordinate(text, direction) ==
    /\ ParseFloat(text) # None
    /\ DotAt(text) >= 4 /\ DotAt(text) < Len(text)
    /\ direction \in {"N", "S", "E", "W"}

\* What the conversion has to give: the digits before the two minute digits
\* as degrees plus the minutes (two digits, ".", fraction) / 60, negative
\* exactly for "S" and "W"; the magnitude in units of 1/600000 degree.
ExpectedDegrees(text, direction) ==
    LET p == DotAt(text)
        degrees == NatOf(SubSeq(text, 1, p - 3))
        minutes == Val(ParseFloat(SubSeq(text, p - 2, Len(text))))
    IN  Float(direction \in {"S", "W"}, degrees * UnitsPerDegree + minutes)

\* A float as a signed number of 1e-6 degree, rounded.
MicroDegrees(x) ==
    LET mag == (x.mag * 10 + 3) \div 6
    IN  IF x.neg THEN 0 - mag ELSE mag

\* C12 as stated, for gps.py: the location read_location returns for a GGA
\* sentence with coordinate fields DDMM.MMMM and DDDMM.MMMM is degrees +
\* minutes / 60 with the sign of the hemisphere, also for the three-digit
\* degrees of a longitude.
C12_CoordinateConversion ==
    (/\ g_location # None
     /\ IsCoordinate(g_line.raw_lat, g_line.lat_dir)
     /\ IsCoordinate(g_line.raw_lon, g_line.lon_dir))
        => /\ Val(g_location).lat
                = ExpectedDegrees(g_line.raw_lat, g_line.lat_dir)
           /\ Val(g_location).lon
                = ExpectedDegrees(g_line.raw_lon, g_line.lon_dir)

\* C12, for ant.py: the coordinates convert_to_decimal gave for the payload
\* last sent are degrees + minutes / 60 with the sign of the hemisphere, to
\* the six decimals it rounds to.
C12_AntCoordinateConversion ==
    (ant_sent # None /\ ant_line.kind # "none" /\ ant_pc = "loop"
        /\ ParseLine(ant_line).res = "fix")
        => /\ Val(ant_sent).lat
                = MicroDegrees(ExpectedDegrees(ant_line.raw_lat,
                                               ant_line.lat_dir))
           /\ Val(ant_sent).lon
                = MicroDegrees(ExpectedDegrees(ant_line.raw_lon,
                                               ant_line.lon_dir))

\* The text is a date and time of the form YYYY-MM-DD HH:MM:SS.
IsTimestampText(text) ==
    /\ Len(text) = 19
    /\ text[5] = "-" /\ text[8] = "-" /\ text[11] = " "
    /\ text[14] = ":" /\ text[17] = ":"
    /\ \A i \in (1..19) \ {5, 8, 11, 14, 17} : text[i] \in Digits

\* The text is a number with exactly nd decimals: an optional "-" when
\* signed, one or more digits, ".", nd digits.
IsFixedText(text, nd, signed) ==
    LET body == IF signed /\ Len(text) > 0 /\ text[1] = "-"
                THEN Tail(text) ELSE text
    IN  /\ Len(body) >= nd + 2
        /\ body[Len(body) - nd] = "."
        /\ \A i \in (1..Len(body)) \ {Len(body) - nd} : body[i] \in Digits

\* The text is "<timestamp> LAT:<lat> LON:<lon> SPD:<speed>km/h" with 7, 7
\* and 2 decimals and single spaces.
IsPayloadGrammar(text) ==
    \E la \in 9..12, lb \in 9..12, lc \in 4..9 :
        /\ Len(text) = 19 + 5 + la + 5 + lb + 5 + lc + 4
        /\ IsTimestampText(SubSeq(text, 1, 19))
        /\ SubSeq(text, 20, 24) = <<" ", "L", "A", "T", ":">>
        /\ IsFixedText(SubSeq(text, 25, 24 + la), 7, TRUE)
        /\ SubSeq(text, 25 + la, 29 + la) = <<" ", "L", "O", "N", ":">>
        /\ IsFixedText(SubSeq(text, 30 + la, 29 + la + lb), 7, TRUE)
        /\ SubSeq(text, 30 + la + lb, 34 + la + lb)
              = <<" ", "S", "P", "D", ":">>
        /\ IsFixedText(SubSeq(text, 35 + la + lb, 34 + la + lb + lc),
                       2, FALSE)
        /\ SubSeq(text, 35 + la + lb + lc, 38 + la + lb + lc)
              = <<"k", "m", "/", "h">>

FloatEq(a, b) == a.mag = b.mag /\ (a.mag = 0 \/ a.neg = b.neg)

\* x rounded to nd decimals, in units of 10^-nd.
Rounded(x, nd) == Float(x.neg, RoundScaled(x, nd))

\* C14: the payload gps1.py formats is matched by the pattern of rec.py and
\* the three numbers rec.py converts are the latitude, the longitude and the
\* speed rounded to 7, 7 and 2 decimals, negative coordinates included.
C14_RoundTrip ==
    p_pc = "received"
        => /\ p_rx.matched /\ ~p_rx.error
           /\ FloatEq(p_rx.lat, Rounded(Val(p_lat), 7))
           /\ FloatEq(p_rx.lon, Rounded(Val(p_lon), 7))
           /\ FloatEq(p_rx.spd, Rounded(Val(p_spd), 2))

\* Received were a negative latitude, the longitude 179.99999999 as
\* 180.0000000 and the speed 0.125 as 0.12.
C14_Witness ==
    /\ p_pc = "received" /\ p_rx.matched /\ ~p_rx.error
    /\ p_lon = Some(Dec(FALSE, 179, 99999999, 8))
    /\ p_rx.lat = Float(TRUE, 338500001)
    /\ p_rx.lon = Float(FALSE, 1800000000)
    /\ p_rx.spd = Float(FALSE, 12)

\* The step is an iteration of the main loop of gps1.py.
Gps1Iteration ==
    pc = "loop" /\ pc' = "loop"
        /\ <<line, msg, now, tx_count, last_fix_valid>>'
              # <<line, msg, now, tx_count, last_fix_valid>>

C16_SendsNewestFix ==
    [][(ant_tx' = ant_tx + 1 /\ ant_pc' = "loop")
        => Val(ant_sent').n = ant_newest]_vars

\* C16 as stated, the draining: an iteration that reads takes every line
\* that has arrived.
C16_DrainsArrivedSentences ==
    [][AntReadsLine => ant_buf' = <<>>]_vars

\* C17: between two consecutive calls of the transport send of gps.py at
\* least the send interval elapses.
C17_SendsAtLeastIntervalApart ==
    [][(g_count' = g_count + 1 /\ g_last_tx # None)
        => /\ g_last_tx' # None
           /\ Val(g_last_tx') - Val(g_last_tx) >= SEND_INTERVAL_gps]_vars

\* Two payloads have been sent by gps.py.
C17_Witness ==
    /\ g_count >= 3 /\ g_last_tx # None
    /\ Val(g_last_tx) >= SEND_INTERVAL_gps /\ g_written # None

\* C17, for gps1.py: an iteration that calls send_lora ends at least
\* SEND_INTERVAL after the call, and the clock never runs backwards, so two
\* calls are at least SEND_INTERVAL apart.
C17_Gps1SendTakesInterval ==
    [][/\ now' >= now
       /\ tx_count' = tx_count + 1 => now' >= now + SEND_INTERVAL]_vars

\* C18 as stated, for gps.py: after KeyboardInterrupt both the serial handle
\* of the GNSS reader and the handle of the transport are closed.
C18_HandlesReleasedOnCancel ==
    g_pc = "stopped" => (~g_gps_open /\ ~g_lora_open)

\* C18, for ant.py: after KeyboardInterrupt both handles are closed.
C18_AntHandlesReleased ==
    ant_pc = "stopped" => (~ant_gps_open /\ ~ant_lora_open)

\* C18, for the serial handles of gps1.py: after KeyboardInterrupt the GPS
\* handle and the AT handle are closed.
C18_Gps1SerialHandlesReleased ==
    pc = "stopped" => (~gps_open /\ ~at_open)

\* The text ends with a newline and has no second newline before it.
EndsWithOneNewline(text) ==
    /\ Len(text) >= 2
    /\ text[Len(text)] = "\n"
    /\ text[Len(text) - 1] # "\n"

C19_GpsRawUartSend ==
    [][g_count' = g_count + 1
        => /\ g_pc' = "loop"
           /\ g_ok' = Some(g_written' # None)
           /\ g_written' # None
                => /\ EndsWithOneNewline(Val(g_written'))
                   /\ Val(g_written')
                        = Append(GpsMessage(g_count, Val(g_location').lat,
                                            Val(g_location').lon), "\n")]_vars

\* C20 as stated: the receiver thread never operates on the serial handle
\* while the main loop is writing to it or has closed it.
C20_HandleUsedByMainLoopOnly ==
    s_rx = "reading" => (s_main # "writing" /\ s_open)

\* C21 as stated: a sentence whose bytes are split across two reads reaches
\* the parser once and whole: every line handed to pynmea2.parse is a
\* complete sentence, and no part of a sentence is dropped on its own.
C21_SplitSentenceFramedOnce ==
    /\ fr_parsed = fr_whole
    /\ ~fr_dropped

\* C21, the half that concerns the parser alone: every line handed to
\* pynmea2.parse is a complete sentence.
C21_ParserGetsCompleteSentences == fr_parsed = fr_whole

\* C21 restricted to the runs in which every readline found its delimiter
\* (the rest of a split sentence arrived before the timeout, no read raised,
\* and the port was opened between two sentences): whatever the pieces in
\* which the bytes arrived, every line handed on or passed over is a
\* complete sentence, and no sentence is handed on twice.
C21_FramedWholeWithinTimeout ==
    ~fr_cut =>
        /\ fr_parsed = fr_whole
        /\ ~fr_dropped
        /\ fr_parsed <= fr_emitted
        /\ fr_line # <<>> => fr_line \in SentenceLines

\* A sentence that arrived in two pieces and was handed to the parser whole
\* while the next one was on its way.
C21_WitnessWithinTimeout ==
    /\ ~fr_cut
    /\ fr_parsed > 0
    /\ fr_line \in SentenceLines /\ IsUseful(fr_line)
    /\ fr_rest # <<>>

\* C22: an iteration of gps1.main that parsed a sentence without a position
\* clears last_fix_valid, leaves last_lat, last_lon and last_time as they
\* were and sends nothing; any other iteration that sends nothing leaves
\* last_fix_valid as it was and a sentence with a position sets it; a
\* sentence with a position that finds last_fix_valid cleared is sent with
\* speed 0 without the distance to the stored position being computed, so a
\* non-zero speed is derived only when the last parsed sentence before had a
\* position as well.
C22_PositionlessSentenceResetsSpeed ==
    [][(pc = "loop" /\ pc' = "loop")
        => /\ (line' = "sentence" /\ ~HasPosition(msg'))
                => /\ ~last_fix_valid'
                   /\ UNCHANGED <<last_lat, last_lon, last_time>>
                   /\ UNCHANGED <<payload, ok, resp, tx_count>>
           /\ line' # "sentence"
                => UNCHANGED <<last_fix_valid, last_lat, last_lon, last_time>>
           /\ (line' = "sentence" /\ HasPosition(msg'))
                => /\ last_fix_valid'
                   /\ tx_count' = tx_count + 1
                   /\ ~last_fix_valid
                        => /\ speed_kmh' = 0 /\ Val(payload').spd = 0
                           /\ dist_m' = None /\ dt' = None
                   /\ speed_kmh' # 0 => last_fix_valid]_vars

\* A later fix, one second after the stored one and at another latitude,
\* sent with speed 0 because a sentence without a position came in between
\* (the distance was not computed although a fix had been stored).
C22_Witness ==
    /\ FixState /\ tx_count >= 2
    /\ dist_m = None /\ dt = None
    /\ speed_kmh = 0 /\ Val(payload).spd = 0
    /\ last_fix_valid
    /\ msg.timestamp = Some(2) /\ msg.latitude = 129725000

\* The coordinate fields of a parsed sentence are not empty: at least one of
\* the two values is not the 0.0 that an empty field gives.
CoordinatesPresent(m) ==
    m.kind # "none" /\ (m.latitude # 0 \/ m.longitude # 0)

\* C23 as stated: every parsed sentence whose coordinates are present (and in
\* range) is sent as a position payload with its own coordinates, a fix on
\* the equator or on the prime meridian included.
C23_EveryFixInRangeSent ==
    [][(pc = "loop" /\ pc' = "loop" /\ line' = "sentence"
          /\ CoordinatesPresent(msg'))
        => /\ tx_count' = tx_count + 1
           /\ Val(payload').lat = msg'.latitude
           /\ Val(payload').lon = msg'.longitude]_vars

\* C23 without the two lines: every parsed sentence whose latitude and
\* longitude are both different from 0 is sent as a position payload with
\* its own coordinates.
C23_EveryFixOffTheAxesSent ==
    [][(pc = "loop" /\ pc' = "loop" /\ line' = "sentence"
          /\ msg'.latitude # 0 /\ msg'.longitude # 0)
        => /\ tx_count' = tx_count + 1
           /\ Val(payload').lat = msg'.latitude
           /\ Val(payload').lon = msg'.longitude]_vars

\* C24, the order of the commands: send_message attempts AT+MODE=1,
\* AT+SEND=<message>, AT+MODE=0 in this order whatever the writes and the
\* replies do, and AT+MODE=0 is the last command attempted before it returns.
C24_CommandOrder ==
    /\ sm_pc = "mode1" => commands = <<"AT+MODE=1">>
    /\ sm_pc = "sent" => commands = <<"AT+MODE=1", "AT+SEND">>
    /\ (sm_pc = "idle" /\ result # None)
          => commands = <<"AT+MODE=1", "AT+SEND", "AT+MODE=0">>

\* C24 as stated: the commands are attempted in the order AT+MODE=1,
\* AT+SEND, AT+MODE=0 on every return path, a failed write included, and the
\* modem is never in transmit mode after send_message has returned.
C24_NeverLeftInTransmitMode ==
    /\ C24_CommandOrder
    /\ sm_pc = "idle" => module_mode = 0

\* C25 as stated: in every interleaving of the main loop and the receiver
\* thread each counter moves exactly with the event it counts: packets_sent
\* with every completed write, packets_received with every non-empty line
\* (modelled as the only steps of "reading" that change it), and errors by
\* one with every handler of a failed send or a failed receive that
\* completes, so that no increment is lost.
C25_StatisticsExact ==
    [][/\ packets_sent' = IF s_main = "writing" /\ s_written' = s_data
                               /\ s_main' = "idle"
                          THEN packets_sent + 1 ELSE packets_sent
       /\ packets_received' # packets_received
            => /\ s_rx = "reading" /\ s_rx' = "idle"
               /\ packets_received' = packets_received + 1
       /\ errors' = IF \/ (s_main = "err_loaded" /\ s_main' = "idle")
                       \/ (s_rx = "err_loaded" /\ s_rx' = "idle")
                    THEN errors + 1 ELSE errors]_vars

\* C25, the error counter alone: whenever no handler is between its load and
\* its store of self.errors, errors equals the number of exceptions the two
\* handlers have caught.
C25_ErrorsCountFailures ==
    (s_main # "err_loaded" /\ s_rx # "err_loaded") => errors = s_failures

\* C25, the two packet counters alone (each is written by one thread only):
\* packets_sent grows by one exactly with every completed write and
\* packets_received changes only by one and only when readline returned.
C25_PacketCountersExact ==
    [][/\ packets_sent' = IF s_main = "writing" /\ s_written' = s_data
                               /\ s_main' = "idle"
                          THEN packets_sent + 1 ELSE packets_sent
       /\ packets_received' # packets_received
            => /\ s_rx = "reading" /\ s_rx' = "idle"
               /\ packets_received' = packets_received + 1]_vars

\* The input has the form dest_addr,freq,message with 0 <= dest_addr <= 65535
\* and freq in one of the two supported bands.
SupportedInput(text) ==
    LET parts == Split(text)
    IN  /\ Len(parts) >= 3
        /\ ~IntOf(parts[1]).raised /\ IntOf(parts[1]).value \in 0..65535
        /\ ~IntOf(parts[2]).raised
        /\ IntOf(parts[2]).value \in (410..493) \cup (850..930)

\* The header the claim describes for a supported input: band_start is 850
\* for the 850 MHz band, 850 itself included, and 410 otherwise.
ClaimedHeader(text) ==
    LET parts == Split(text)
        dest_addr == IntOf(parts[1]).value
        freq == IntOf(parts[2]).value
        band_start == IF freq >= 850 THEN 850 ELSE 410
    IN  <<dest_addr \div 256, dest_addr % 256, freq - band_start,
          node_addr \div 256, node_addr % 256, node_offset_freq>>

\* The state right after an iteration of the prompt loop that read an input
\* which is not blank.
Test1Iteration == t_pc = "prompt" /\ t_outcome \in {"sent", "error"}

\* C26 as stated, for the supported inputs: a frame with the claimed header
\* (band_start 850 from freq = 850 on) is handed to the serial port and
\* every header byte is in 0..255.
C26_SupportedInputSendsHeader ==
    (Test1Iteration /\ SupportedInput(t_input))
        => /\ t_frame # None
           /\ Val(t_frame).header = ClaimedHeader(t_input)
           /\ \A i \in 1..6 : Val(t_frame).header[i] \in 0..255

\* C26 for the supported inputs other than freq = 850: a frame with the
\* claimed header is handed to the serial port, every header byte in 0..255.
C26_HeaderExceptAt850 ==
    (Test1Iteration /\ SupportedInput(t_input)
        /\ IntOf(Split(t_input)[2]).value # 850)
        => /\ t_frame # None
           /\ Val(t_frame).header = ClaimedHeader(t_input)
           /\ \A i \in 1..6 : Val(t_frame).header[i] \in 0..255

\* C26, the last part as stated: for an input that is not supported the
\* error is reported and nothing is handed to the port.
C26_UnsupportedInputNotSent ==
    (Test1Iteration /\ ~SupportedInput(t_input))
        => (t_frame = None /\ t_outcome = "error")

\* C26, the header bytes: whatever the input, every byte of the header of a
\* frame handed to the port is in 0..255.
C26_HeaderBytesInRange ==
    (t_frame # None) => \A i \in 1..6 : Val(t_frame).header[i] \in 0..255

TypeOK ==
    /\ pc \in {"init_gps", "select", "loop", "exited", "stopped"}
    /\ lora_iface \in {"None", "sx", "at"}
    /\ now \in 0..MaxTime

====
